---- MODULE Spec2Model ----
(***************************************************************************)
(* Orchestration core of the AoE2 DE Archiver: the single-flight task      *)
(* guard (ctx.rs set_task / TaskReset, utils::Busy), the step-status       *)
(* table, the event channel, the background workers and the run-all        *)
(* pipeline of main.rs.                                                    *)
(*                                                                         *)
(* Strings are modelled as sequences of text segments, so that formatting  *)
(* ("{:#}" of an anyhow error chain, "[LEVEL] message" of the tracing      *)
(* layer) is a computation on them.                                        *)
(***************************************************************************)
EXTENDS Naturals, Sequences, FiniteSets, TLC

\* Number of threads a behaviour may spawn (workers and guard holders).
MaxThreads == 2

\* Number of events that may wait in the channel for the UI thread.
MaxChan == 7

\* Length of the step-status table, [StepStatus; 4].
NumSteps == 4

\* Largest step index passed to set_step_status by a direct caller.
MaxStep == 5

\* Largest directory size (source total, sampled destination size).
MaxSize == 2

\* Number of Progress(Some(..)) events that may wait in the channel.
MaxSamples == 2

\* The largest number of assets of a release in the listing.
MaxAssets == 2

\* The capacity of the UI log buffer.
LogCap == 100

\* The largest number of add_log calls of a behaviour, and of those that come
\* from an Error event.
MaxAdds == 103

MaxErrors == 1

VARIABLES
    step_status,   \* Context.step_status: the four slots, shared by every Context
    chan,          \* the mpsc event channel (tx side cloned into every Context)
    current_task,  \* ctx.rs Context.current_task, one per Context object
    busy,          \* main.rs Context.busy (utils::Busy), one per Context object
    source_dir,    \* App.source_dir / Context.sourcedir
    th,            \* the threads spawned so far
    ret,           \* what the last library call returned to its caller
    app            \* App.state, App.error, App.progress of the UI thread, the
                   \* status table as the last frame drew it, and whether
                   \* App.update_rx still exists

vars == <<step_status, chan, current_task, busy, source_dir, th, ret, app>>

Tids == 1..MaxThreads
\* Context 0 is a Context shared by its callers (App.ctx); context t is the
\* Context App::context() built for the spawn of thread t.
CtxIds == 0..MaxThreads
Steps == 0..(NumSteps - 1)

Tasks == {"Copy", "Goldberg", "Companion", "Launcher"}

---------------------------------------------------------------------------
\* StepStatus

NotStarted == [tag |-> "NotStarted", msg |-> <<>>]
InProgress == [tag |-> "InProgress", msg |-> <<>>]
Completed == [tag |-> "Completed", msg |-> <<>>]
Failed(m) == [tag |-> "Failed", msg |-> m]

---------------------------------------------------------------------------
\* Results of fallible operations and their formatting

ResNone == [out |-> "none", err |-> <<>>]
ResOk == [out |-> "ok", err |-> <<>>]
ResErr(chain) == [out |-> "err", err |-> chain]
ResPanic == [out |-> "panic", err |-> <<>>]

RECURSIVE JoinChain(_)
JoinChain(chain) ==
    IF Len(chain) <= 1 THEN chain
    ELSE <<Head(chain), ": ">> \o JoinChain(Tail(chain))

\* format!("{}", err): the outermost message only.
FmtPlain(chain) == <<Head(chain)>>

\* format!("{:#}", err): the whole context chain, joined by ": ".
FmtAlt(chain) == JoinChain(chain)

---------------------------------------------------------------------------
\* Events (AppUpdate)

\* The f64 values the progress fraction goes through: a finite non-negative
\* ratio num/den, +infinity, or NaN.
Fin(num, den) == [kind |-> "fin", num |-> num, den |-> den]
Inf == [kind |-> "inf", num |-> 1, den |-> 1]
NaN == [kind |-> "nan", num |-> 0, den |-> 1]
NoFrac == [kind |-> "none", num |-> 0, den |-> 1]

\* dest_size as f64 / dir_size as f64
F64Div(a, b) ==
    IF b = 0 THEN (IF a = 0 THEN NaN ELSE Inf) ELSE Fin(a, b)

F64MinNaN(x) ==
    CASE x.kind = "nan" -> NaN
      [] x.kind = "inf" -> Fin(1, 1)
      [] OTHER -> IF x.num > x.den THEN Fin(1, 1) ELSE x

\* x.min(1.0): the smaller of the two, and 1.0 when x is NaN.
F64Min(x) ==
    CASE x.kind = "nan" -> Fin(1, 1)
      [] x.kind = "inf" -> Fin(1, 1)
      [] OTHER -> IF x.num > x.den THEN Fin(1, 1) ELSE x

Ev(type, text) == [type |-> type, text |-> text, frac |-> NoFrac]
StepStatusChanged == Ev("StepStatusChanged", <<>>)
Working(msg) == Ev("Working", msg)
ErrorEv(msg) == Ev("Error", msg)
ProgressNone == Ev("Progress", <<>>)
ProgressSome(fr) == [type |-> "Progress", text |-> <<"Copying... ">>, frac |-> fr]
DiskSpaceInfo == Ev("DiskSpaceInfo", <<>>)

\* UiLayer::on_event: a tracing event becomes Log("[LEVEL] message").
UiLayerLog(level, msg) == Ev("Log", <<"[", level, "] ">> \o msg)

\* tx.send(ev) on the channel made by mpsc::channel(): the queue has no
\* capacity limit, so the call never waits; it fails, without queueing, when
\* the Receiver is gone.
ChanSendBounded(q, rx, ev) ==
    [chan |-> IF rx = "open" /\ q = <<>> THEN Append(q, ev) ELSE q,
     ok |-> rx = "open",
     blocks |-> rx = "open" /\ q # <<>>]

ChanSend(q, rx, ev) ==
    [chan |-> IF rx = "open" THEN Append(q, ev) ELSE q,
     ok |-> rx = "open",
     blocks |-> FALSE]

\* A producer's sends in a row, each result dropped (let _ = .., .ok()).
RECURSIVE SendAll(_, _, _)
SendAll(q, rx, evs) ==
    IF evs = <<>> THEN [chan |-> q, blocks |-> FALSE]
    ELSE LET r == ChanSend(q, rx, Head(evs))
         IN  IF r.blocks THEN [chan |-> r.chan, blocks |-> TRUE]
             ELSE SendAll(r.chan, rx, Tail(evs))

---------------------------------------------------------------------------
\* Context::set_step_status: the slot write (out-of-range steps ignored)
\* and the event that follows it.

SetStepStatusSpill(steps, step, status) ==
    [i \in DOMAIN steps |->
        IF i = step \/ i = step + 1 THEN status ELSE steps[i]]

SetStepStatusKeep(steps, step, status) == steps

\* A setter that also writes the slot before.
SetStepStatusBack(steps, step, status) ==
    [i \in DOMAIN steps |->
        IF i = step \/ i + 1 = step THEN status ELSE steps[i]]

SetStepStatusClamp(steps, step, status) ==
    IF step < NumSteps THEN [steps EXCEPT ![step] = status]
    ELSE [steps EXCEPT ![NumSteps - 1] = status]

SetStepStatusTable(steps, step, status) ==
    IF step < NumSteps THEN [steps EXCEPT ![step] = status] ELSE steps

---------------------------------------------------------------------------
\* Context::set_task, Context::is_busy, TaskReset::drop on one current_task

SetTaskNoCheck(cur, task) == [ok |-> TRUE, cur |-> task, err |-> <<>>]

SetTaskFailRelease(cur, task) ==
    IF cur # "None"
    THEN [ok |-> FALSE, cur |-> "None", err |-> <<"Task already running: ", cur>>]
    ELSE [ok |-> TRUE, cur |-> task, err |-> <<>>]

SetTaskOverwrite(cur, task) ==
    IF cur # "None"
    THEN [ok |-> FALSE, cur |-> task, err |-> <<"Task already running: ", cur>>]
    ELSE [ok |-> TRUE, cur |-> task, err |-> <<>>]

SetTask(cur, task) ==
    IF cur # "None"
    THEN [ok |-> FALSE, cur |-> cur, err |-> <<"Task already running: ", cur>>]
    ELSE [ok |-> TRUE, cur |-> task, err |-> <<>>]

IsBusy(cur) == cur # "None"

TaskResetDropKeeps(cur) == cur

TaskResetDrop(cur) == "None"

---------------------------------------------------------------------------
\* utils::Busy: a flag with a scoped guard (lock fails when already held).

BusyNew == FALSE
BusyLock(b) == [ok |-> ~b, busy |-> TRUE]
BusyIsBusy(b) == b
BusyGuardDrop(b) == FALSE

---------------------------------------------------------------------------
\* Threads

NoThread ==
    [kind |-> "none", ctx |-> 0, step |-> 0, pc |-> "done", res |-> ResNone,
     guard |-> "none", rx |-> "none", calls |-> <<>>, arg |-> NotStarted,
     task |-> "None", complete |-> FALSE, size |-> 0, peer |-> 0,
     prog |-> "none", ip |-> 0]

\* The Task a spawn function of this kind passes to set_task.
TaskOf(kind) ==
    CASE kind = "goldberg" -> "Goldberg"
      [] kind = "companion" -> "Companion"
      [] OTHER -> "None"

NewThread(kind, c, step, pc, guard, rx) ==
    [kind |-> kind, ctx |-> c, step |-> step, pc |-> pc, res |-> ResNone,
     guard |-> guard, rx |-> rx, calls |-> <<>>, arg |-> NotStarted,
     task |-> TaskOf(kind), complete |-> FALSE, size |-> 0, peer |-> 0,
     prog |-> "none", ip |-> 0]

\* A thread that has ended: it holds nothing any more.
Ended(r) == [r EXCEPT !.pc = "done", !.guard = "none"]

FreeTids == {t \in Tids : th[t].kind = "none"}
NewTid == CHOOSE t \in FreeTids : \A u \in FreeTids : t <= u

\* The threads that hold the TaskReset / the Busy guard of context c.
Holders(c) == {t \in Tids : th[t].guard = "TaskReset" /\ th[t].ctx = c}
BusyHolders(c) == {t \in Tids : th[t].guard = "BusyGuard" /\ th[t].ctx = c}

RetNone == [fn |-> "none", ok |-> TRUE, err |-> <<>>, tid |-> 0]
Ret(fn, ok, err, tid) == [fn |-> fn, ok |-> ok, err |-> err, tid |-> tid]

AppInit ==
    [state |-> <<>>, error |-> <<>>, progress |-> <<>>,
     steps |-> [i \in 0..(NumSteps - 1) |-> NotStarted],
     update_rx |-> "open"]

\* draw_main: the frame draws the status table as it reads it now.
DrawSteps(a, steps) == [a EXCEPT !.steps = steps]

Init ==
    /\ step_status = [i \in Steps |-> NotStarted]
    /\ chan = <<>>
    /\ current_task = [c \in CtxIds |-> "None"]
    /\ busy = [c \in CtxIds |-> BusyNew]
    /\ source_dir \in {"None", "Some"}
    /\ th = [t \in Tids |-> NoThread]
    /\ ret = RetNone
    /\ app = AppInit

---------------------------------------------------------------------------
\* The collaborator operations: every run of one is its result together
\* with the events it put on the channel before returning.

Run(res, ev) == [res |-> res, ev |-> ev]

\* main.rs copy_game_folder
CopyGameFolderRuns(src) ==
    LET prep == Working(<<"Preparing to copy AoE2 files">>)
        copying == Working(<<"Copying from ">>)
    IN  IF src = "None"
        THEN {Run(ResErr(<<"No source directory">>), <<prep>>)}
        ELSE {Run(ResErr(<<"Source validation failed", "Directory does not exist">>),
                  <<prep>>),
              Run(ResErr(<<"Operation cancelled by user">>),
                  <<prep, DiskSpaceInfo, copying>>),
              Run(ResOk,
                  <<prep, DiskSpaceInfo, copying, ProgressNone,
                    Working(<<"Copy completed successfully">>)>>)}

\* goldberg.rs apply_goldberg (its info! events reach the channel through
\* the tracing layer); the expect() on the encryption panics.
ApplyGoldbergRuns ==
    LET dl == UiLayerLog("INFO", <<"Downloading Goldberg Emulator">>)
        enc == UiLayerLog("INFO", <<"Encrypting steamclient_loader_x64.exe">>)
    IN  {Run(ResErr(<<"error sending request">>), <<dl>>),
         Run(ResPanic, <<dl, enc>>),
         Run(ResOk, <<dl, enc, UiLayerLog("INFO", <<"Done installing goldberg">>)>>)}

\* companion.rs install_launcher_companion
InstallLauncherCompanionRuns ==
    LET url == UiLayerLog("INFO", <<"Getting latest launcher companion release url.">>)
    IN  {Run(ResErr(<<"Unable to find latest companion release">>), <<url>>),
         Run(ResOk, <<url, UiLayerLog("INFO", <<"Downloading launcher companion.">>),
                      UiLayerLog("INFO", <<"Done installing companion.">>)>>)}

\* launcher.rs install_launcher
InstallLauncherRuns ==
    LET url == Working(<<"Getting latest launcher release url.">>)
    IN  {Run(ResErr(<<"Unable to find latest launcher release.">>), <<url>>),
         Run(ResOk, <<url, Working(<<"Downloading launcher.">>),
                      Working(<<"Done installing launcher.">>)>>)}

\* The operation a thread of this kind runs for this step.
OpName(kind, step) ==
    CASE kind = "copy" -> "copy_game_folder"
      [] kind = "goldberg" -> "apply_goldberg"
      [] kind = "companion" -> "install_launcher_companion"
      [] kind = "launcher" -> "install_launcher"
      [] kind = "runall" ->
            (CASE step = 0 -> "copy_game_folder"
               [] step = 1 -> "apply_goldberg"
               [] step = 2 -> "install_launcher_companion"
               [] OTHER -> "install_launcher")
      [] OTHER -> "none"

OpRuns(op, src) ==
    CASE op = "copy_game_folder" -> CopyGameFolderRuns(src)
      [] op = "apply_goldberg" -> ApplyGoldbergRuns
      [] op = "install_launcher_companion" -> InstallLauncherCompanionRuns
      [] op = "install_launcher" -> InstallLauncherRuns
      [] OTHER -> {}

---------------------------------------------------------------------------
\* What a worker does with the result of its operation.

FinalStatusPlainMessage(res) ==
    IF res.out = "ok" THEN Completed ELSE Failed(FmtPlain(res.err))

FinalStatusReset(res) == NotStarted

FinalStatusInProgress(res) == InProgress

\* Ok(_) => Completed, Err(err) => Failed(format!("{:#}", err))
FinalStatus(res) ==
    IF res.out = "ok" THEN Completed ELSE Failed(FmtAlt(res.err))

RunAllOkMessage(step) ==
    CASE step = 0 -> <<"Step 1/4 completed: Game files copied">>
      [] step = 1 -> <<"Step 2/4 completed: Goldberg emulator applied">>
      [] step = 2 -> <<"Step 3/4 completed: Companion installed">>
      [] OTHER -> <<"All steps completed successfully!", " (check mark)">>

RunAllErrPrefix(step) ==
    CASE step = 0 -> "Step 1 failed: "
      [] step = 1 -> "Step 2 failed: "
      [] step = 2 -> "Step 3 failed: "
      [] OTHER -> "Step 4 failed: "

\* The event a worker sends after it has written the final status.
DoneEvent(kind, step, res) ==
    LET msg == FmtAlt(res.err)
    IN  CASE kind = "copy" ->
               IF res.out = "ok"
               THEN Working(<<"Copy completed successfully">>)
               ELSE ErrorEv(<<"Copy failed: ">> \o msg)
          [] kind = "goldberg" ->
               IF res.out = "ok"
               THEN UiLayerLog("INFO", <<"Goldberg emulator applied successfully">>)
               ELSE UiLayerLog("ERROR", <<"Goldberg installation failed: ">> \o msg)
          [] kind = "companion" ->
               IF res.out = "ok"
               THEN UiLayerLog("INFO", <<"Companion installed successfully">>)
               ELSE UiLayerLog("ERROR", <<"Companion installation failed: ">> \o msg)
          [] OTHER ->
               IF res.out = "ok"
               THEN Working(RunAllOkMessage(step))
               ELSE ErrorEv(<<RunAllErrPrefix(step)>> \o msg)

AfterOpContinue(kind, step, res) ==
    CASE res.out = "panic" -> [pc |-> "exit", step |-> step]
      [] kind = "companion" /\ res.out = "ok" -> [pc |-> "send", step |-> step]
      [] kind = "runall" /\ step + 1 < NumSteps -> [pc |-> "start", step |-> step + 1]
      [] OTHER -> [pc |-> "exit", step |-> step]

AfterOpRetry(kind, step, res) ==
    CASE res.out = "panic" -> [pc |-> "exit", step |-> step]
      [] kind = "companion" /\ res.out = "ok" -> [pc |-> "send", step |-> step]
      [] kind = "runall" /\ res.out = "ok" /\ step + 1 < NumSteps ->
            [pc |-> "start", step |-> step + 1]
      [] kind = "runall" /\ res.out = "err" /\ step = 0 ->
            [pc |-> "start", step |-> step]
      [] OTHER -> [pc |-> "exit", step |-> step]

AfterOpAlwaysSend(kind, step, res) ==
    CASE res.out = "panic" -> [pc |-> "exit", step |-> step]
      [] kind = "companion" -> [pc |-> "send", step |-> step]
      [] kind = "runall" /\ res.out = "ok" /\ step + 1 < NumSteps ->
            [pc |-> "start", step |-> step + 1]
      [] OTHER -> [pc |-> "exit", step |-> step]

\* Where the thread goes once the operation is over.
AfterOp(kind, step, res) ==
    CASE res.out = "panic" -> [pc |-> "exit", step |-> step]
      [] kind = "companion" /\ res.out = "ok" -> [pc |-> "send", step |-> step]
      [] kind = "runall" /\ res.out = "ok" /\ step + 1 < NumSteps ->
            [pc |-> "start", step |-> step + 1]
      [] OTHER -> [pc |-> "exit", step |-> step]

---------------------------------------------------------------------------
\* Thread steps

\* The thread starts: a worker marks its step InProgress before it calls
\* the operation; the thread of spawn_install_launcher calls it directly.
Begin(t) ==
    /\ th[t].kind \in {"copy", "goldberg", "companion", "launcher", "runall"}
    /\ th[t].pc = "start"
    /\ app.update_rx = "open" => Len(chan) < MaxChan
    /\ LET sent == SendAll(chan, app.update_rx,
                           IF th[t].kind = "launcher" THEN <<>>
                           ELSE <<StepStatusChanged>>)
       IN  /\ th' = [th EXCEPT
                       ![t].pc = IF sent.blocks THEN "blocked" ELSE "op",
                       ![t].calls = Append(@, OpName(th[t].kind, th[t].step))]
           /\ chan' = sent.chan
           /\ step_status' =
                 IF th[t].kind = "launcher" THEN step_status
                 ELSE SetStepStatusTable(step_status, th[t].step, InProgress)
    /\ UNCHANGED <<current_task, busy, source_dir, ret, app>>

\* The operation ends (returns or panics) and the worker records the result.
OpReturn(t) ==
    /\ th[t].pc = "op"
    /\ \E run \in OpRuns(OpName(th[t].kind, th[t].step), source_dir) :
         LET k == th[t].kind
             s == th[t].step
             next == AfterOp(k, s, run.res)
             quiet == k = "launcher" \/ run.res.out = "panic"
             sent == SendAll(chan, app.update_rx,
                             IF quiet THEN run.ev
                             ELSE run.ev \o <<StepStatusChanged,
                                              DoneEvent(k, s, run.res)>>)
         IN  /\ app.update_rx = "open" => Len(chan) + Len(run.ev) + 2 <= MaxChan
             /\ th' = [th EXCEPT
                         ![t].pc = IF sent.blocks THEN "blocked" ELSE next.pc,
                         ![t].step = next.step,
                         ![t].res = run.res]
             /\ chan' = sent.chan
             /\ step_status' =
                   IF quiet THEN step_status
                   ELSE SetStepStatusTable(step_status, s, FinalStatus(run.res))
    /\ UNCHANGED <<current_task, busy, source_dir, ret, app>>

\* tx.send(()) on the rendezvous channel returns at once with an error when
\* the Receiver is gone.
SendToDropped(t) ==
    /\ th[t].pc = "send"
    /\ th[t].rx = "dropped"
    /\ th' = [th EXCEPT ![t].pc = "exit"]
    /\ UNCHANGED <<step_status, chan, current_task, busy, source_dir, ret, app>>

\* The holder of the Receiver calls rx.recv() and blocks in it.
RecvCall(t) ==
    /\ th[t].rx = "held"
    /\ th' = [th EXCEPT ![t].rx = "waiting"]
    /\ UNCHANGED <<step_status, chan, current_task, busy, source_dir, ret, app>>

\* The rendezvous: the blocked recv() takes the value the worker is sending,
\* and send returns.
Recv(t) ==
    /\ th[t].pc = "send"
    /\ th[t].rx = "waiting"
    /\ th' = [th EXCEPT ![t].pc = "exit", ![t].rx = "got"]
    /\ UNCHANGED <<step_status, chan, current_task, busy, source_dir, ret, app>>

\* The worker's closure has ended and dropped the SyncSender without a send:
\* the blocked recv() returns Err(RecvError).
RecvDisconnected(t) ==
    /\ th[t].pc = "done"
    /\ th[t].rx = "waiting"
    /\ th' = [th EXCEPT ![t].rx = "disconnected"]
    /\ UNCHANGED <<step_status, chan, current_task, busy, source_dir, ret, app>>

\* The holder of the Receiver drops it.
DropRx(t) ==
    /\ th[t].rx = "held"
    /\ th' = [th EXCEPT ![t].rx = "dropped"]
    /\ UNCHANGED <<step_status, chan, current_task, busy, source_dir, ret, app>>

\* The thread ends (or a guard holder leaves its scope): what it holds is
\* dropped.
Exit(t) ==
    /\ th[t].pc = "exit"
    /\ th' = [th EXCEPT ![t] = Ended(th[t])]
    /\ current_task' =
         IF th[t].guard = "TaskReset"
         THEN [current_task EXCEPT ![th[t].ctx] = TaskResetDrop(@)]
         ELSE current_task
    /\ busy' =
         IF th[t].guard = "BusyGuard"
         THEN [busy EXCEPT ![th[t].ctx] = BusyGuardDrop(@)]
         ELSE busy
    /\ UNCHANGED <<step_status, chan, source_dir, ret, app>>

---------------------------------------------------------------------------
\* The library calls, on context c

\* A caller takes the guard with set_task and keeps the TaskReset.
TryStart(task) ==
    LET r == SetTask(current_task[0], task)
    IN  /\ r.ok => FreeTids # {}
        /\ current_task' = [current_task EXCEPT ![0] = r.cur]
        /\ IF r.ok
           THEN /\ th' = [th EXCEPT ![NewTid] =
                            [NewThread("holder", 0, 0, "exit", "TaskReset", "none")
                               EXCEPT !.task = task]]
                /\ ret' = Ret("set_task", TRUE, r.err, NewTid)
           ELSE /\ th' = th
                /\ ret' = Ret("set_task", FALSE, r.err, 0)
        /\ UNCHANGED <<step_status, chan, busy, source_dir, app>>

\* goldberg.rs spawn_apply(ctx)
SpawnApply(c) ==
    LET r == SetTask(current_task[c], TaskOf("goldberg"))
    IN  /\ r.ok => FreeTids # {}
        /\ current_task' = [current_task EXCEPT ![c] = r.cur]
        /\ IF r.ok
           THEN /\ th' = [th EXCEPT ![NewTid] =
                            NewThread("goldberg", c, 1, "start", "TaskReset", "none")]
                /\ ret' = Ret("spawn_apply", TRUE, r.err, NewTid)
           ELSE /\ th' = th
                /\ ret' = Ret("spawn_apply", FALSE, r.err, 0)

\* companion.rs spawn_install_launcher_companion(ctx); rx says what the
\* caller does with the Receiver it gets back.
SpawnInstallLauncherCompanion(c, rx) ==
    LET r == SetTask(current_task[c], TaskOf("companion"))
    IN  /\ r.ok => FreeTids # {}
        /\ current_task' = [current_task EXCEPT ![c] = r.cur]
        /\ IF r.ok
           THEN /\ th' = [th EXCEPT ![NewTid] =
                            NewThread("companion", c, 2, "start", "TaskReset", rx)]
                /\ ret' = Ret("spawn_install_launcher_companion", TRUE, r.err, NewTid)
           ELSE /\ th' = th
                /\ ret' = Ret("spawn_install_launcher_companion", FALSE, r.err, 0)

---------------------------------------------------------------------------
\* The UI thread

\* ui.rs App::update: the channel is drained; Progress is kept.
RECURSIVE ApplyUpdatesUi(_, _)
ApplyUpdatesUi(a, q) ==
    IF q = <<>> THEN a
    ELSE ApplyUpdatesUi(IF Head(q).type = "Progress"
                        THEN [a EXCEPT !.progress = Head(q).text]
                        ELSE a,
                        Tail(q))

UpdateUi ==
    /\ app.update_rx = "open"
    /\ chan # <<>>
    /\ chan' = <<>>
    /\ app' = DrawSteps(ApplyUpdatesUi(app, chan), step_status)
    /\ UNCHANGED <<step_status, current_task, busy, source_dir, th, ret>>

---------------------------------------------------------------------------
\* The ctx.rs variant: callers share one Context (context 0).

CallTryStart == \E task \in Tasks : TryStart(task)

CallSpawnApply ==
    /\ SpawnApply(0)
    /\ UNCHANGED <<step_status, chan, busy, source_dir, app>>

CallSpawnCompanion ==
    /\ SpawnInstallLauncherCompanion(0, "held")
    /\ UNCHANGED <<step_status, chan, busy, source_dir, app>>

NextCtx ==
    \/ CallTryStart
    \/ CallSpawnApply
    \/ CallSpawnCompanion
    \/ \E t \in Tids : Begin(t)
    \/ \E t \in Tids : OpReturn(t)
    \/ \E t \in Tids : SendToDropped(t)
    \/ \E t \in Tids : RecvCall(t)
    \/ \E t \in Tids : Recv(t)
    \/ \E t \in Tids : RecvDisconnected(t)
    \/ \E t \in Tids : DropRx(t)
    \/ \E t \in Tids : Exit(t)
    \/ UpdateUi

SpecCtx == Init /\ [][NextCtx]_vars

\* The same with the scheduling of the threads: a thread that can take its
\* next step after its operation returned (a send that can complete, the end
\* of the closure, a recv() that can return) eventually takes it.
SpecCtxFair ==
    /\ SpecCtx
    /\ \A t \in Tids :
         /\ WF_vars(SendToDropped(t))
         /\ WF_vars(Recv(t))
         /\ WF_vars(RecvDisconnected(t))
         /\ WF_vars(Exit(t))

---------------------------------------------------------------------------
\* The main.rs variant: the UI thread of main.rs drives the steps; every
\* App::context() call builds a Context of its own.

\* main.rs App::update, one event
ApplyUpdate(a, e) ==
    CASE e.type = "Working" -> [a EXCEPT !.state = e.text, !.error = <<>>]
      [] e.type = "Error" -> [a EXCEPT !.error = e.text, !.state = <<>>]
      [] e.type = "Progress" -> [a EXCEPT !.progress = e.text]
      [] OTHER -> a

\* main.rs App::update, the while-let over try_recv
RECURSIVE ApplyUpdates(_, _)
ApplyUpdates(a, q) ==
    IF q = <<>> THEN a ELSE ApplyUpdates(ApplyUpdate(a, Head(q)), Tail(q))

\* main.rs App::update: the drain, then draw_main reads the status table.
Frame(a, q, steps) == DrawSteps(ApplyUpdates(a, q), steps)

SpawnCopyGameFolderNoCheck(c, a) ==
    /\ ret' = Ret("spawn_copy_game_folder", TRUE, <<>>, NewTid)
    /\ app' = a
    /\ chan' = <<>>
    /\ busy' = [busy EXCEPT ![c] = TRUE]
    /\ th' = [th EXCEPT ![NewTid] =
                NewThread("copy", c, 0, "start", "BusyGuard", "none")]

\* main.rs spawn_copy_game_folder(app); c is the Context built for the guard,
\* a the App after the drain of this frame.
SpawnCopyGameFolder(c, a) ==
    LET r == BusyLock(busy[c])
    IN  IF ~r.ok
        THEN /\ ret' = Ret("spawn_copy_game_folder", FALSE, <<"AlreadyBusy">>, 0)
             /\ app' = [a EXCEPT !.error = <<"Failed to start copy: ", "AlreadyBusy">>]
             /\ chan' = <<>>
             /\ UNCHANGED <<busy, th>>
        ELSE IF source_dir = "None"
        THEN /\ ret' = Ret("spawn_copy_game_folder", TRUE, <<>>, 0)
             /\ app' = a
             /\ chan' = SendAll(<<>>, a.update_rx,
                                <<ErrorEv(<<"No source directory selected">>)>>).chan
             /\ busy' = [busy EXCEPT ![c] = BusyGuardDrop(r.busy)]
             /\ UNCHANGED th
        ELSE /\ ret' = Ret("spawn_copy_game_folder", TRUE, <<>>, NewTid)
             /\ app' = a
             /\ chan' = <<>>
             /\ busy' = [busy EXCEPT ![c] = r.busy]
             /\ th' = [th EXCEPT ![NewTid] =
                         NewThread("copy", c, 0, "start", "BusyGuard", "none")]

\* main.rs spawn_run_all_steps(app)
SpawnRunAllSteps(c, a) ==
    LET r == BusyLock(busy[c])
    IN  IF ~r.ok
        THEN /\ ret' = Ret("spawn_run_all_steps", FALSE, <<"AlreadyBusy">>, 0)
             /\ app' = [a EXCEPT !.error = <<"Failed to start: ", "AlreadyBusy">>]
             /\ UNCHANGED <<busy, th>>
        ELSE /\ ret' = Ret("spawn_run_all_steps", TRUE, <<>>, NewTid)
             /\ app' = a
             /\ busy' = [busy EXCEPT ![c] = r.busy]
             /\ th' = [th EXCEPT ![NewTid] =
                         NewThread("runall", c, 0, "start", "BusyGuard", "none")]

\* launcher.rs spawn_install_launcher(ctx): the Result of lock() is moved
\* into the thread as it is.
SpawnInstallLauncher(c) ==
    LET r == BusyLock(busy[c])
    IN  /\ ret' = Ret("spawn_install_launcher", TRUE, <<>>, NewTid)
        /\ busy' = [busy EXCEPT ![c] = r.busy]
        /\ th' = [th EXCEPT ![NewTid] =
                    NewThread("launcher", c, 3, "start",
                              IF r.ok THEN "BusyGuard" ELSE "BusyErr", "none")]

\* draw_main: let busy = app.context().busy.is_busy();
UiBusy == BusyIsBusy(BusyNew)

\* A frame in which nothing is clicked: the channel is drained.
Update ==
    /\ app.update_rx = "open"
    /\ chan # <<>>
    /\ chan' = <<>>
    /\ app' = Frame(app, chan, step_status)
    /\ UNCHANGED <<step_status, current_task, busy, source_dir, th, ret>>

\* folder_selection: the user picks a valid source directory.
SelectSourceDir ==
    /\ app.update_rx = "open"
    /\ source_dir = "None"
    /\ source_dir' = "Some"
    /\ chan' = <<>>
    /\ app' = Frame(app, chan, step_status)
    /\ UNCHANGED <<step_status, current_task, busy, th, ret>>

\* "1. Copy Game Folder"
ClickCopy ==
    /\ app.update_rx = "open"
    /\ FreeTids # {}
    /\ source_dir # "None" /\ ~UiBusy
    /\ SpawnCopyGameFolder(NewTid, Frame(app, chan, step_status))
    /\ UNCHANGED <<step_status, current_task, source_dir>>

\* A Goldberg button that is enabled whatever the status of step 0.
ClickGoldbergUngated ==
    /\ app.update_rx = "open"
    /\ FreeTids # {}
    /\ ~UiBusy
    /\ SpawnApply(NewTid)
    /\ chan' = <<>>
    /\ app' = IF ret'.ok THEN Frame(app, chan, step_status)
              ELSE [Frame(app, chan, step_status) EXCEPT
                      !.error = <<"Failed to start Goldberg installation: ">> \o ret'.err]
    /\ UNCHANGED <<step_status, busy, source_dir>>

\* "2. Apply Goldberg Emulator"
ClickGoldberg ==
    /\ app.update_rx = "open"
    /\ FreeTids # {}
    /\ ~UiBusy /\ step_status[0] = Completed
    /\ SpawnApply(NewTid)
    /\ chan' = <<>>
    /\ app' = IF ret'.ok THEN Frame(app, chan, step_status)
              ELSE [Frame(app, chan, step_status) EXCEPT
                      !.error = <<"Failed to start Goldberg installation: ">> \o ret'.err]
    /\ UNCHANGED <<step_status, busy, source_dir>>

\* "3. Install Companion": the Receiver is a temporary of the if-let.
ClickCompanion ==
    /\ app.update_rx = "open"
    /\ FreeTids # {}
    /\ ~UiBusy /\ step_status[1] = Completed
    /\ SpawnInstallLauncherCompanion(NewTid, "dropped")
    /\ chan' = <<>>
    /\ app' = IF ret'.ok THEN Frame(app, chan, step_status)
              ELSE [Frame(app, chan, step_status) EXCEPT
                      !.error = <<"Failed to install companion: ">> \o ret'.err]
    /\ UNCHANGED <<step_status, busy, source_dir>>

\* "4. Install Launcher"
ClickLauncher ==
    /\ app.update_rx = "open"
    /\ FreeTids # {}
    /\ ~UiBusy /\ step_status[2] = Completed
    /\ SpawnInstallLauncher(NewTid)
    /\ chan' = <<>>
    /\ app' = Frame(app, chan, step_status)
    /\ UNCHANGED <<step_status, current_task, source_dir>>

\* "Run All Steps"
ClickRunAll ==
    /\ app.update_rx = "open"
    /\ FreeTids # {}
    /\ source_dir # "None" /\ ~UiBusy /\ step_status[0] = NotStarted
    /\ SpawnRunAllSteps(NewTid, Frame(app, chan, step_status))
    /\ chan' = <<>>
    /\ UNCHANGED <<step_status, current_task, source_dir>>

NextMain ==
    \/ Update
    \/ SelectSourceDir
    \/ ClickCopy
    \/ ClickGoldberg
    \/ ClickCompanion
    \/ ClickLauncher
    \/ ClickRunAll
    \/ \E t \in Tids : Begin(t)
    \/ \E t \in Tids : OpReturn(t)
    \/ \E t \in Tids : SendToDropped(t)
    \/ \E t \in Tids : Exit(t)

SpecMain == Init /\ [][NextMain]_vars

---------------------------------------------------------------------------
\* The copy workers of main.rs as producers, with a consumer that may go
\* away: the window is closed, the App and with it update_rx is dropped, and
\* the worker threads go on until the process ends.

DropApp ==
    /\ app.update_rx = "open"
    /\ app' = [app EXCEPT !.update_rx = "dropped"]
    /\ chan' = <<>>
    /\ UNCHANGED <<step_status, current_task, busy, source_dir, th, ret>>

NextChan ==
    \/ Update
    \/ ClickCopy
    \/ DropApp
    \/ \E t \in Tids : Begin(t)
    \/ \E t \in Tids : OpReturn(t)
    \/ \E t \in Tids : Exit(t)

SpecChan == Init /\ [][NextChan]_vars

---------------------------------------------------------------------------
\* spawn_install_launcher on a Context its caller shares with the holder of
\* the Busy guard (context 0).

HoldBusy ==
    LET r == BusyLock(busy[0])
    IN  /\ FreeTids # {}
        /\ r.ok
        /\ busy' = [busy EXCEPT ![0] = r.busy]
        /\ th' = [th EXCEPT ![NewTid] =
                    NewThread("holder", 0, 0, "exit", "BusyGuard", "none")]
        /\ ret' = Ret("lock", TRUE, <<>>, NewTid)
        /\ UNCHANGED <<step_status, chan, current_task, source_dir, app>>

CallSpawnInstallLauncher ==
    /\ FreeTids # {}
    /\ SpawnInstallLauncher(0)
    /\ UNCHANGED <<step_status, chan, current_task, source_dir, app>>

\* spawn_copy_game_folder called whether or not a source directory is set.
CallSpawnCopyGameFolder ==
    /\ app.update_rx = "open"
    /\ FreeTids # {}
    /\ SpawnCopyGameFolder(0, Frame(app, chan, step_status))
    /\ UNCHANGED <<step_status, current_task, source_dir>>

NextBusy ==
    \/ HoldBusy
    \/ CallSpawnInstallLauncher
    \/ CallSpawnCopyGameFolder
    \/ \E t \in Tids : Begin(t)
    \/ \E t \in Tids : OpReturn(t)
    \/ \E t \in Tids : Exit(t)
    \/ Update

SpecBusy == Init /\ [][NextBusy]_vars

---------------------------------------------------------------------------
\* The copy worker of main.rs step by step, with the progress sampler thread
\* that copy_game_folder starts. complete is the AtomicBool the two share
\* (kept in the sampler's record), size the source total (dir_size).

Sizes == 0..MaxSize

\* The Progress(Some(..)) events in a queue.
RECURSIVE NumSome(_)
NumSome(q) ==
    IF q = <<>> THEN 0
    ELSE (IF Head(q).type = "Progress" /\ Head(q).text # <<>> THEN 1 ELSE 0)
         + NumSome(Tail(q))

CopyItemsErr == ResErr(<<"Failed to copy files", "io error">>)

\* copy_game_folder up to the spawn of the sampler.
CopyPrepare(t) ==
    /\ th[t].kind = "copy"
    /\ th[t].pc = "op"
    /\ \/ \E run \in CopyGameFolderRuns(source_dir) :
            /\ run.res.out = "err"
            /\ app.update_rx = "open" => Len(chan) + Len(run.ev) <= MaxChan
            /\ chan' = SendAll(chan, app.update_rx, run.ev).chan
            /\ th' = [th EXCEPT ![t].pc = "ret", ![t].res = run.res]
       \/ /\ source_dir # "None"
          /\ FreeTids # {}
          /\ app.update_rx = "open" => Len(chan) + 3 <= MaxChan
          /\ chan' = SendAll(chan, app.update_rx,
                             <<Working(<<"Preparing to copy AoE2 files">>),
                               DiskSpaceInfo, Working(<<"Copying from ">>)>>).chan
          /\ \E dir_size \in Sizes :
               th' = [th EXCEPT
                        ![t].pc = "copy_items",
                        ![t].peer = NewTid,
                        ![NewTid] = [NewThread("sampler", th[t].ctx, 0, "check",
                                               "none", "none")
                                       EXCEPT !.size = dir_size, !.peer = t]]
    /\ UNCHANGED <<step_status, current_task, busy, source_dir, ret, app>>

\* copy_items(..).context("Failed to copy files")?
CopyItems(t) ==
    /\ th[t].kind = "copy"
    /\ th[t].pc = "copy_items"
    /\ \/ th' = [th EXCEPT ![t].pc = "store"]
       \/ th' = [th EXCEPT ![t].pc = "ret", ![t].res = CopyItemsErr]
    /\ UNCHANGED <<step_status, chan, current_task, busy, source_dir, ret, app>>

\* complete.store(true, Ordering::Relaxed)
CopyStore(t) ==
    /\ th[t].kind = "copy"
    /\ th[t].pc = "store"
    /\ th' = [th EXCEPT ![t].pc = "clear", ![th[t].peer].complete = TRUE]
    /\ UNCHANGED <<step_status, chan, current_task, busy, source_dir, ret, app>>

\* ctx.tx.send(Progress(None)); working_on("Copy completed successfully"); Ok(())
CopyClear(t) ==
    /\ th[t].kind = "copy"
    /\ th[t].pc = "clear"
    /\ app.update_rx = "open" => Len(chan) + 2 <= MaxChan
    /\ chan' = SendAll(chan, app.update_rx,
                       <<ProgressNone, Working(<<"Copy completed successfully">>)>>).chan
    /\ th' = [th EXCEPT ![t].pc = "ret", ![t].res = ResOk]
    /\ UNCHANGED <<step_status, current_task, busy, source_dir, ret, app>>

\* The worker's match on what copy_game_folder returned.
CopyFinish(t) ==
    /\ th[t].kind = "copy"
    /\ th[t].pc = "ret"
    /\ app.update_rx = "open" => Len(chan) + 2 <= MaxChan
    /\ step_status' = SetStepStatusTable(step_status, th[t].step, FinalStatus(th[t].res))
    /\ chan' = SendAll(chan, app.update_rx,
                       <<StepStatusChanged,
                         DoneEvent("copy", th[t].step, th[t].res)>>).chan
    /\ th' = [th EXCEPT ![t].pc = "exit"]
    /\ UNCHANGED <<current_task, busy, source_dir, ret, app>>

\* The sampler's loop head: if complete.load(Ordering::Relaxed) { break; }
SamplerCheck(t) ==
    /\ th[t].kind = "sampler"
    /\ th[t].pc = "check"
    /\ th' = [th EXCEPT ![t].pc = IF th[t].complete THEN "done" ELSE "sample"]
    /\ UNCHANGED <<step_status, chan, current_task, busy, source_dir, ret, app>>

\* The rest of an iteration: get_size(&outdir), the Progress event when it
\* succeeded, the sleep.
SamplerSample(t) ==
    /\ th[t].kind = "sampler"
    /\ th[t].pc = "sample"
    /\ th' = [th EXCEPT ![t].pc = "check"]
    /\ \/ chan' = chan
       \/ \E dest_size \in Sizes :
            /\ app.update_rx = "open" =>
                  (Len(chan) < MaxChan /\ NumSome(chan) < MaxSamples)
            /\ chan' = SendAll(chan, app.update_rx,
                               <<ProgressSome(F64Min(F64Div(dest_size, th[t].size)))>>).chan
    /\ UNCHANGED <<step_status, current_task, busy, source_dir, ret, app>>

\* One copy is started, by the button.
ClickCopyOnce ==
    /\ \A t \in Tids : th[t].kind = "none"
    /\ ClickCopy

NextCopy ==
    \/ Update
    \/ ClickCopyOnce
    \/ \E t \in Tids : Begin(t)
    \/ \E t \in Tids : CopyPrepare(t)
    \/ \E t \in Tids : CopyItems(t)
    \/ \E t \in Tids : CopyStore(t)
    \/ \E t \in Tids : CopyClear(t)
    \/ \E t \in Tids : CopyFinish(t)
    \/ \E t \in Tids : SamplerCheck(t)
    \/ \E t \in Tids : SamplerSample(t)
    \/ \E t \in Tids : Exit(t)

SpecCopy == Init /\ [][NextCopy]_vars

\* The same with the scheduling of the threads, and a UI that keeps running
\* frames.
SpecCopyFair ==
    /\ SpecCopy
    /\ WF_vars(Update)
    /\ \A t \in Tids :
         /\ WF_vars(CopyStore(t))
         /\ WF_vars(CopyClear(t))
         /\ WF_vars(CopyFinish(t))
         /\ WF_vars(SamplerCheck(t))
         /\ WF_vars(SamplerSample(t))
         /\ WF_vars(Exit(t))

---------------------------------------------------------------------------
\* Context::set_step_status called directly, with any index and status: the
\* write under the table's lock, then the send of the event. The events stay
\* in the channel (no frame runs meanwhile).

StatusArgs == {InProgress, Completed}

CallSetStepStatus ==
    /\ \A u \in Tids : th[u].kind = "none"
    /\ \E i \in 0..MaxStep, s \in StatusArgs :
         th' = [th EXCEPT ![NewTid] =
                  [NewThread("setter", 0, i, "write", "none", "none")
                     EXCEPT !.arg = s]]
    /\ UNCHANGED <<step_status, chan, current_task, busy, source_dir, ret, app>>

\* if let Ok(mut steps) = self.step_status.lock() { if step < steps.len() { .. } }
SetterWrite(t) ==
    /\ th[t].kind = "setter"
    /\ th[t].pc = "write"
    /\ step_status' = SetStepStatusTable(step_status, th[t].step, th[t].arg)
    /\ th' = [th EXCEPT ![t].pc = "send", ![t].calls = Append(@, "table")]
    /\ UNCHANGED <<chan, current_task, busy, source_dir, ret, app>>

\* let _ = self.tx.send(AppUpdate::StepStatusChanged);
SetterSend(t) ==
    /\ th[t].kind = "setter"
    /\ th[t].pc = "send"
    /\ app.update_rx = "open" => Len(chan) < MaxChan
    /\ LET sent == SendAll(chan, app.update_rx, <<StepStatusChanged>>)
       IN  /\ chan' = sent.chan
           /\ th' = [th EXCEPT ![t].pc = IF sent.blocks THEN "blocked" ELSE "done",
                               ![t].calls = Append(@, "send")]
    /\ UNCHANGED <<step_status, current_task, busy, source_dir, ret, app>>

\* set_step_status has returned to its caller.
SetterReturn(t) ==
    /\ th[t].kind = "setter"
    /\ th[t].pc = "done"
    /\ th' = [th EXCEPT ![t] = NoThread]
    /\ UNCHANGED <<step_status, chan, current_task, busy, source_dir, ret, app>>

NextTable ==
    \/ CallSetStepStatus
    \/ \E t \in Tids : SetterWrite(t)
    \/ \E t \in Tids : SetterSend(t)
    \/ \E t \in Tids : SetterReturn(t)

SpecTable == Init /\ [][NextTable]_vars

---------------------------------------------------------------------------
\* The mutexes of the Context (ctx.rs variant): every function that touches
\* one is the sequence of its lock, unlock, send and I/O steps, and a thread
\* runs one such sequence, one step at a time. The update queue is left out
\* of this view: tx.send never blocks, and here only where a send stands
\* relative to the lock sections matters.

Mutexes == {"sourcedir", "outdir", "current_task", "step_status"}

I(op, m) == [op |-> op, m |-> m, k |-> 0]

\* A branch of the code: the thread goes on, or skips the next k steps.
J(k) == [op |-> "branch", m |-> "none", k |-> k]

\* self.sourcedir.lock().unwrap().clone()
SourcedirProg == <<I("lock", "sourcedir"), I("unlock", "sourcedir")>>

\* self.outdir.lock().unwrap().clone()
OutdirProg == <<I("lock", "outdir"), I("unlock", "outdir")>>

\* get_size and the send come first, the lock section is the assignment.
SetSourcedirProg ==
    <<I("io", "get_size"), I("send", "SourceSize")>> \o
    <<I("lock", "sourcedir"), I("unlock", "sourcedir")>>

SetOutdirProg ==
    <<I("io", "available_space"), I("send", "DestDriveAvailable")>> \o
    <<I("lock", "outdir"), I("unlock", "outdir")>>

\* The guard of the if-let is dropped at the end of its block, before the send.
SetStepStatusProg ==
    <<I("lock", "step_status"), I("unlock", "step_status"),
      I("send", "StepStatusChanged")>>

\* set_task: the MutexGuard lives to the end of the function.
SetTaskProg(task) ==
    <<I("lock", "current_task"), I("set_task", task),
      I("unlock", "current_task")>>

IsBusyProg == <<I("lock", "current_task"), I("unlock", "current_task")>>

TaskResetDropProg ==
    <<I("lock", "current_task"), I("reset", "current_task"),
      I("unlock", "current_task")>>

\* A frame that calls is_busy() while it still holds the table's lock.
DrawMainProgNested ==
    <<I("drain", "update_rx")>> \o SourcedirProg \o OutdirProg \o
    <<I("lock", "step_status"), I("draw", "labels")>> \o IsBusyProg \o
    <<I("unlock", "step_status")>>

\* App::update and draw_main of one frame: the queue is drained, the two
\* folder rows are drawn (a click on one opens the dialog and calls
\* set_outdir), the step row is drawn under the table's lock, and can_run_all
\* is evaluated (&& short-circuits after a false conjunct).
DrawMainProg ==
    <<I("drain", "update_rx")>> \o
    SourcedirProg \o
    <<J(5), I("io", "pick_folder")>> \o SetOutdirProg \o
    OutdirProg \o
    <<J(5), I("io", "pick_folder")>> \o SetOutdirProg \o
    <<I("lock", "step_status"), I("draw", "labels"),
      I("unlock", "step_status")>> \o
    SourcedirProg \o
    <<J(5)>> \o IsBusyProg \o
    <<J(2), I("lock", "step_status"), I("unlock", "step_status")>>

\* The closure of spawn_apply: the operation reads outdir on its way and
\* returns or panics; a panic skips the recording of the result.
GoldbergProg ==
    SetStepStatusProg \o
    <<I("io", "download")>> \o OutdirProg \o <<I("io", "write")>> \o
    <<J(4)>> \o SetStepStatusProg \o <<I("send", "Log")>> \o
    TaskResetDropProg

\* The closure of spawn_install_launcher_companion: only the Ok arm sends
\* on the rendezvous channel.
CompanionProg ==
    SetStepStatusProg \o
    <<I("io", "download")>> \o OutdirProg \o <<I("io", "write")>> \o
    SetStepStatusProg \o <<I("send", "Log")>> \o
    <<J(1), I("sync_send", "done")>> \o
    TaskResetDropProg

\* Context::new: the two paths are set before the Context is shared.
ContextNewProg == <<J(4)>> \o SetSourcedirProg \o SetOutdirProg

ProgOf(r) ==
    CASE r.prog = "draw_main" -> DrawMainProg
      [] r.prog = "new" -> ContextNewProg
      [] r.prog = "set_task" -> SetTaskProg(r.task)
      [] r.prog = "goldberg" -> GoldbergProg
      [] r.prog = "companion" -> CompanionProg
      [] OTHER -> <<>>

\* The mutexes a thread holds after the first n steps of its sequence.
RECURSIVE HeldAfter(_, _)
HeldAfter(p, n) ==
    IF n = 0 THEN {}
    ELSE LET h == HeldAfter(p, n - 1)
         IN  CASE p[n].op = "lock" -> h \cup {p[n].m}
               [] p[n].op = "unlock" -> h \ {p[n].m}
               [] OTHER -> h

Held(t) == HeldAfter(ProgOf(th[t]), th[t].ip)

\* The step thread t is at (op "end" after the last one).
NextInstr(t) ==
    LET p == ProgOf(th[t])
    IN  IF th[t].ip < Len(p) THEN p[th[t].ip + 1] ELSE I("end", "none")

LockThread(t) == th[t].pc = "lk"

\* The main thread builds the Context, or runs a frame.
LkStartMain ==
    /\ FreeTids # {}
    /\ \E f \in {"draw_main", "new"} :
         /\ f = "draw_main" => \A u \in Tids : th[u].prog # "draw_main"
         /\ f = "new" => \A u \in Tids : th[u].kind = "none"
         /\ th' = [th EXCEPT ![NewTid] =
                     [NewThread("ui", 0, 0, "lk", "none", "none")
                        EXCEPT !.prog = f]]
    /\ UNCHANGED <<step_status, chan, current_task, busy, source_dir, ret, app>>

\* A thread calls spawn_apply or spawn_install_launcher_companion.
LkStartSpawn ==
    /\ FreeTids # {}
    /\ \E k \in {"goldberg", "companion"} :
         th' = [th EXCEPT ![NewTid] =
                  [NewThread("spawner", 0, 0, "lk", "none", "none")
                     EXCEPT !.prog = "set_task", !.task = TaskOf(k)]]
    /\ UNCHANGED <<step_status, chan, current_task, busy, source_dir, ret, app>>

\* mutex.lock(): the thread gets the mutex when nobody holds it.
LkAcquire(t) ==
    /\ LockThread(t)
    /\ NextInstr(t).op = "lock"
    /\ \A u \in Tids : NextInstr(t).m \notin Held(u)
    /\ th' = [th EXCEPT ![t].ip = @ + 1]
    /\ UNCHANGED <<step_status, chan, current_task, busy, source_dir, ret, app>>

\* The MutexGuard is dropped.
LkRelease(t) ==
    /\ LockThread(t)
    /\ NextInstr(t).op = "unlock"
    /\ th' = [th EXCEPT ![t].ip = @ + 1]
    /\ UNCHANGED <<step_status, chan, current_task, busy, source_dir, ret, app>>

\* The body of set_task: bail! when a task is recorded, else record it.
LkSetTask(t) ==
    /\ LockThread(t)
    /\ NextInstr(t).op = "set_task"
    /\ LET r == SetTask(current_task[0], NextInstr(t).m)
       IN  /\ current_task' = [current_task EXCEPT ![0] = r.cur]
           /\ th' = [th EXCEPT ![t].ip = @ + 1,
                               ![t].guard = IF r.ok THEN "TaskReset" ELSE "none"]
    /\ UNCHANGED <<step_status, chan, busy, source_dir, ret, app>>

\* The body of TaskReset::drop.
LkReset(t) ==
    /\ LockThread(t)
    /\ NextInstr(t).op = "reset"
    /\ current_task' = [current_task EXCEPT ![0] = TaskResetDrop(@)]
    /\ th' = [th EXCEPT ![t].ip = @ + 1, ![t].guard = "none"]
    /\ UNCHANGED <<step_status, chan, busy, source_dir, ret, app>>

\* A step that takes no mutex: a send on the update queue, a file or network
\* operation, the drawing of the labels, the drain of the queue, the
\* rendezvous send once its receiver takes the value or is gone.
LkOther(t) ==
    /\ LockThread(t)
    /\ NextInstr(t).op \in {"send", "io", "draw", "drain", "sync_send"}
    /\ th' = [th EXCEPT ![t].ip = @ + 1]
    /\ UNCHANGED <<step_status, chan, current_task, busy, source_dir, ret, app>>

\* if / match / ?: the thread takes one of the two ways.
LkBranch(t) ==
    /\ LockThread(t)
    /\ NextInstr(t).op = "branch"
    /\ \E skip \in {0, NextInstr(t).k} :
         th' = [th EXCEPT ![t].ip = @ + 1 + skip]
    /\ UNCHANGED <<step_status, chan, current_task, busy, source_dir, ret, app>>

\* The sequence is over: the frame ends, a failed spawn returns its error, a
\* successful one hands its TaskReset to the closure of the new thread.
LkEnd(t) ==
    /\ LockThread(t)
    /\ NextInstr(t).op = "end"
    /\ IF th[t].guard = "TaskReset"
       THEN \E k \in {"goldberg", "companion"} :
              /\ TaskOf(k) = current_task[0]
              /\ th' = [th EXCEPT ![t].kind = k, ![t].ip = 0, ![t].prog = k]
       ELSE th' = [th EXCEPT ![t] = NoThread]
    /\ UNCHANGED <<step_status, chan, current_task, busy, source_dir, ret, app>>

NextLock ==
    \/ LkStartMain
    \/ LkStartSpawn
    \/ \E t \in Tids : LkAcquire(t)
    \/ \E t \in Tids : LkRelease(t)
    \/ \E t \in Tids : LkSetTask(t)
    \/ \E t \in Tids : LkReset(t)
    \/ \E t \in Tids : LkOther(t)
    \/ \E t \in Tids : LkBranch(t)
    \/ \E t \in Tids : LkEnd(t)

SpecLock == Init /\ [][NextLock]_vars

---------------------------------------------------------------------------
\* utils::gh_latest_release_dl_url, on the listing the API returned. A string
\* is the sequence of its characters; an asset says whether it has a string
\* "name" and a string "browser_download_url"; the URL of asset i of release
\* r is written [rel |-> r, idx |-> i].

Str(name) == [has |-> TRUE, s |-> name]
NoStr == [has |-> FALSE, s |-> <<>>]

\* name.contains(s)
Contains(name, s) ==
    \E i \in 1..(Len(name) + 1) :
        /\ i + Len(s) - 1 <= Len(name)
        /\ SubSeq(name, i, i + Len(s) - 1) = s

NoUrl == [rel |-> 0, idx |-> 0]

GhOk(url) == [out |-> "ok", some |-> url # NoUrl, url |-> url, err |-> <<>>]
GhErr(msg) == [out |-> "err", some |-> FALSE, url |-> NoUrl, err |-> msg]

\* for asset in assets { .. }: the first asset, from index i on, that has a
\* name containing every search string and has a URL.
RECURSIVE FirstAsset(_, _, _, _)
FirstAsset(assets, r, i, search) ==
    IF i > Len(assets) THEN GhOk(NoUrl)
    ELSE IF ~assets[i].name.has THEN FirstAsset(assets, r, i + 1, search)
    ELSE IF ~(\A s \in search : Contains(assets[i].name.s, s))
         THEN FirstAsset(assets, r, i + 1, search)
    ELSE IF ~assets[i].url THEN FirstAsset(assets, r, i + 1, search)
    ELSE GhOk([rel |-> r, idx |-> i])

\* The assets of release r are searched.
GhAssets(releases, r, search) ==
    CASE releases[r].kind = "missing" ->
           GhErr(<<"Unexpected response from github: expected assets field.">>)
      [] releases[r].kind = "scalar" ->
           GhErr(<<"Expected github assets to be an array, but it was not.">>)
      [] OTHER -> FirstAsset(releases[r].assets, r, 1, search)

\* A lookup that takes the newest release whatever version was asked for.
GhLatestReleaseDlUrlNewest(releases, version, search) ==
    IF Len(releases) = 0 THEN GhErr(<<"repo", " has no releases.">>)
    ELSE GhAssets(releases, 1, search)

\* A lookup that reports a missing version as an error.
GhLatestReleaseDlUrlStrict(releases, version, search) ==
    IF Len(releases) = 0 THEN GhErr(<<"repo", " has no releases.">>)
    ELSE IF version.has
    THEN LET found == {r \in 1..Len(releases) :
                          releases[r].tag.has /\ releases[r].tag.s = version.s}
         IN  IF found = {} THEN GhErr(<<"repo", " has no release ", version.s>>)
             ELSE GhAssets(releases,
                           CHOOSE r \in found : \A q \in found : r <= q,
                           search)
    ELSE GhAssets(releases, 1, search)

GhLatestReleaseDlUrl(releases, version, search) ==
    IF Len(releases) = 0 THEN GhErr(<<"repo", " has no releases.">>)
    ELSE IF version.has
    THEN LET found == {r \in 1..Len(releases) :
                          releases[r].tag.has /\ releases[r].tag.s = version.s}
         IN  IF found = {} THEN GhOk(NoUrl)
             ELSE GhAssets(releases,
                           CHOOSE r \in found : \A q \in found : r <= q,
                           search)
    ELSE GhAssets(releases, 1, search)

\* The listings, versions and search lists the lookup is run on.
GhAssetSet ==
    {[name |-> NoStr, url |-> TRUE],
     [name |-> Str(<<"a">>), url |-> TRUE],
     [name |-> Str(<<"b", "a">>), url |-> TRUE],
     [name |-> Str(<<"b", "a">>), url |-> FALSE]}
GhAssetSeqs == UNION {[1..n -> GhAssetSet] : n \in 0..MaxAssets}
GhTags == {NoStr, Str(<<"v1">>), Str(<<"v2">>)}
GhReleaseSet ==
    {[tag |-> t, kind |-> "array", assets |-> a] :
        t \in GhTags, a \in GhAssetSeqs}
    \cup {[tag |-> t, kind |-> k, assets |-> <<>>] :
            t \in GhTags, k \in {"missing", "scalar"}}
GhListings ==
    {<<>>} \cup {<<r>> : r \in GhReleaseSet}
           \cup {<<r, q>> : r \in GhReleaseSet, q \in GhReleaseSet}
GhVersions == {NoStr, Str(<<"v1">>)}
GhSearches == {{}, {<<"a">>, <<"b">>}, {<<"a", "b">>}}

GhCall(releases, version, search) ==
    [fn |-> "gh_latest_release_dl_url", releases |-> releases,
     version |-> version, search |-> search,
     res |-> [out |-> "pending", some |-> FALSE, url |-> NoUrl, err |-> <<>>]]

InitGh ==
    /\ step_status = [i \in Steps |-> NotStarted]
    /\ chan = <<>>
    /\ current_task = [c \in CtxIds |-> "None"]
    /\ busy = [c \in CtxIds |-> BusyNew]
    /\ source_dir = "None"
    /\ th = [t \in Tids |-> NoThread]
    /\ app = AppInit
    /\ \E l \in GhListings, v \in GhVersions, q \in GhSearches :
          ret = GhCall(l, v, q)

\* The call returns.
GhReturn ==
    /\ ret.res.out = "pending"
    /\ ret' = [ret EXCEPT !.res =
                 GhLatestReleaseDlUrl(ret.releases, ret.version, ret.search)]
    /\ UNCHANGED <<step_status, chan, current_task, busy, source_dir, th, app>>

NextGh == GhReturn

SpecGh == InitGh /\ [][NextGh]_vars

---------------------------------------------------------------------------
\* copy_game_folder before the copy, step by step: the validation of the
\* source, the size, the test of the destination, the confirmation dialog,
\* the removal and the creation of the destination. The thread's calls
\* record what it did to the file system and what the user answered.

ValidationErrors ==
    {<<"Directory does not exist">>,
     <<"Path is not a directory">>,
     <<"This doesn't appear to be an AoE2 DE directory (AoE2DE_s.exe not found)">>}

DialogResults == {"Yes", "No", "Cancel"}

\* A copy that removes the destination whatever the user answered.
DestDialogAnyAnswer(t) ==
    /\ th[t].kind = "copy"
    /\ th[t].pc = "dialog"
    /\ app.update_rx = "open" => Len(chan) < MaxChan
    /\ \E result \in DialogResults :
         /\ th' = [th EXCEPT ![t].calls = Append(@, "dialog:" \o result),
                             ![t].pc = "remove"]
         /\ chan' = SendAll(chan, app.update_rx,
                       <<Working(<<"Removing existing destination folder">>)>>).chan
    /\ UNCHANGED <<step_status, current_task, busy, source_dir, ret, app>>

\* working_on("Preparing .."), outdir(), source_dir(), validate_aoe2_source
DestValidate(t) ==
    /\ th[t].kind = "copy"
    /\ th[t].pc = "op"
    /\ app.update_rx = "open" => Len(chan) < MaxChan
    /\ chan' = SendAll(chan, app.update_rx,
                       <<Working(<<"Preparing to copy AoE2 files">>)>>).chan
    /\ IF source_dir = "None"
       THEN th' = [th EXCEPT ![t].pc = "ret",
                             ![t].res = ResErr(<<"No source directory">>)]
       ELSE \/ th' = [th EXCEPT ![t].pc = "size",
                                ![t].calls = Append(@, "validate_aoe2_source:ok")]
            \/ \E e \in ValidationErrors :
                 th' = [th EXCEPT
                          ![t].pc = "ret",
                          ![t].calls = Append(@, "validate_aoe2_source:err"),
                          ![t].res = ResErr(<<"Source validation failed">> \o e)]
    /\ UNCHANGED <<step_status, current_task, busy, source_dir, ret, app>>

\* get_size(&source), the DiskSpaceInfo event, working_on("Copying from ..")
DestSize(t) ==
    /\ th[t].kind = "copy"
    /\ th[t].pc = "size"
    /\ \/ /\ th' = [th EXCEPT
                      ![t].pc = "ret",
                      ![t].res = ResErr(<<"Failed to get source directory size",
                                          "io error">>)]
          /\ chan' = chan
       \/ /\ app.update_rx = "open" => Len(chan) + 2 <= MaxChan
          /\ \E dir_size \in Sizes :
               th' = [th EXCEPT ![t].pc = "exists", ![t].size = dir_size]
          /\ chan' = SendAll(chan, app.update_rx,
                             <<DiskSpaceInfo, Working(<<"Copying from ">>)>>).chan
    /\ UNCHANGED <<step_status, current_task, busy, source_dir, ret, app>>

\* if outdir.exists() { .. }
DestExists(t) ==
    /\ th[t].kind = "copy"
    /\ th[t].pc = "exists"
    /\ \/ th' = [th EXCEPT ![t].pc = "dialog",
                           ![t].calls = Append(@, "exists:true")]
       \/ th' = [th EXCEPT ![t].pc = "create",
                           ![t].calls = Append(@, "exists:false")]
    /\ UNCHANGED <<step_status, chan, current_task, busy, source_dir, ret, app>>

\* The Yes/No dialog: anything but Yes bails out.
DestDialog(t) ==
    /\ th[t].kind = "copy"
    /\ th[t].pc = "dialog"
    /\ app.update_rx = "open" => Len(chan) < MaxChan
    /\ \E result \in DialogResults :
         IF result # "Yes"
         THEN /\ th' = [th EXCEPT
                          ![t].calls = Append(@, "dialog:" \o result),
                          ![t].pc = "ret",
                          ![t].res = ResErr(<<"Operation cancelled by user">>)]
              /\ chan' = chan
         ELSE /\ th' = [th EXCEPT ![t].calls = Append(@, "dialog:" \o result),
                                  ![t].pc = "remove"]
              /\ chan' = SendAll(chan, app.update_rx,
                            <<Working(<<"Removing existing destination folder">>)>>).chan
    /\ UNCHANGED <<step_status, current_task, busy, source_dir, ret, app>>

\* std::fs::remove_dir_all(&outdir): on an error part of the folder may be
\* gone already.
DestRemove(t) ==
    /\ th[t].kind = "copy"
    /\ th[t].pc = "remove"
    /\ \/ th' = [th EXCEPT ![t].pc = "create",
                           ![t].calls = Append(@, "remove_dir_all:ok")]
       \/ th' = [th EXCEPT
                   ![t].pc = "ret",
                   ![t].calls = Append(@, "remove_dir_all:err"),
                   ![t].res = ResErr(<<"Failed to remove existing destination",
                                       "io error">>)]
    /\ UNCHANGED <<step_status, chan, current_task, busy, source_dir, ret, app>>

\* std::fs::create_dir_all(&outdir), then the sampler is started.
DestCreate(t) ==
    /\ th[t].kind = "copy"
    /\ th[t].pc = "create"
    /\ \/ th' = [th EXCEPT
                   ![t].pc = "ret",
                   ![t].calls = Append(@, "create_dir_all:err"),
                   ![t].res = ResErr(<<"Failed to create destination directory",
                                       "io error">>)]
       \/ /\ FreeTids # {}
          /\ th' = [th EXCEPT
                      ![t].pc = "copy_items",
                      ![t].calls = Append(Append(@, "create_dir_all:ok"),
                                          "copy_items"),
                      ![t].peer = NewTid,
                      ![NewTid] = [NewThread("sampler", th[t].ctx, 0, "check",
                                             "none", "none")
                                     EXCEPT !.size = th[t].size, !.peer = t]]
    /\ UNCHANGED <<step_status, chan, current_task, busy, source_dir, ret, app>>

NextDest ==
    \/ Update
    \/ ClickCopyOnce
    \/ \E t \in Tids : Begin(t)
    \/ \E t \in Tids : DestValidate(t)
    \/ \E t \in Tids : DestSize(t)
    \/ \E t \in Tids : DestExists(t)
    \/ \E t \in Tids : DestDialog(t)
    \/ \E t \in Tids : DestRemove(t)
    \/ \E t \in Tids : DestCreate(t)
    \/ \E t \in Tids : CopyItems(t)
    \/ \E t \in Tids : CopyStore(t)
    \/ \E t \in Tids : CopyClear(t)
    \/ \E t \in Tids : CopyFinish(t)
    \/ \E t \in Tids : SamplerCheck(t)
    \/ \E t \in Tids : SamplerSample(t)
    \/ \E t \in Tids : Exit(t)

SpecDest == Init /\ [][NextDest]_vars

---------------------------------------------------------------------------
\* App::add_log and the events of App::update that call it. The n-th message
\* logged carries the number n, so that every entry is told from the others.

\* A buffer that refuses the new entry when it is full.
AddLogDropNewest(logs, msg) ==
    IF Len(logs) >= LogCap THEN logs ELSE Append(logs, msg)

\* self.logs.push(msg); if self.logs.len() > 100 { self.logs.remove(0); }
AddLog(logs, msg) ==
    LET pushed == Append(logs, msg)
    IN  IF Len(pushed) > LogCap THEN Tail(pushed) ELSE pushed

\* What App::update logs for an event: the state of a Working, "ERROR: " and
\* the error of an Error, nothing for the others.
LogLine(e) ==
    CASE e.type = "Working" -> e.text
      [] e.type = "Error" -> <<"ERROR: ">> \o e.text
      [] OTHER -> <<>>

LogCall(logs, hist) == [fn |-> "add_log", logs |-> logs, hist |-> hist]

NumErrors(hist) == Cardinality({k \in 1..Len(hist) : Head(hist[k]) = "ERROR: "})

InitLog ==
    /\ step_status = [i \in Steps |-> NotStarted]
    /\ chan = <<>>
    /\ current_task = [c \in CtxIds |-> "None"]
    /\ busy = [c \in CtxIds |-> BusyNew]
    /\ source_dir = "None"
    /\ th = [t \in Tids |-> NoThread]
    /\ app = AppInit
    /\ ret = LogCall(<<>>, <<>>)

\* App::update takes an event that is logged from the queue.
UpdateLog(e) ==
    /\ Len(ret.hist) < MaxAdds
    /\ ret' = LogCall(AddLog(ret.logs, LogLine(e)), Append(ret.hist, LogLine(e)))
    /\ UNCHANGED <<step_status, chan, current_task, busy, source_dir, th, app>>

UpdateLogWorking ==
    /\ ret.fn = "add_log"
    /\ UpdateLog(Working(<<ToString(Len(ret.hist) + 1)>>))

UpdateLogError ==
    /\ NumErrors(ret.hist) < MaxErrors
    /\ UpdateLog(ErrorEv(<<ToString(Len(ret.hist) + 1)>>))

NextLog == UpdateLogWorking \/ UpdateLogError

SpecLog == InitLog /\ [][NextLog]_vars

---------------------------------------------------------------------------
\* The launch program: main calls ensure_name, then decrypt_launcher, then
\* runs launcher/start_age2.bat. The files it meets are inputs: the user
\* configuration, the encrypted loader, the decrypted loader.

\* configs.user.ini: missing or unreadable, without account_name, with a
\* blank account_name, with a name.
UserConfigs == {"missing", "unnamed", "blank", "named"}

\* read_line: an error, a blank line, a name.
StdinLines == {"err", "blank", "name"}

\* steamclient_loader_x64.encrypted: missing, not decryptable with the key,
\* decryptable.
EncFiles == {"missing", "corrupt", "valid"}

LaunchCall(conf, line, conf_w, enc, loader, loader_w) ==
    [fn |-> "launch", pc |-> "ensure_name",
     conf |-> conf, line |-> line, conf_writable |-> conf_w,
     enc |-> enc, loader |-> loader, loader_writable |-> loader_w,
     written |-> {}, name_res |-> "pending", dec_res |-> "pending",
     started |-> FALSE]

InitLaunch ==
    /\ step_status = [i \in Steps |-> NotStarted]
    /\ chan = <<>>
    /\ current_task = [c \in CtxIds |-> "None"]
    /\ busy = [c \in CtxIds |-> BusyNew]
    /\ source_dir = "None"
    /\ th = [t \in Tids |-> NoThread]
    /\ app = AppInit
    /\ \E conf \in UserConfigs, line \in StdinLines, enc \in EncFiles,
          conf_w \in BOOLEAN, loader \in BOOLEAN, loader_w \in BOOLEAN :
          ret = LaunchCall(conf, line, conf_w, enc, loader, loader_w)

\* let _ = ensure_name(): every error is returned with ? and dropped by main.
EnsureName ==
    /\ ret.fn = "launch"
    /\ ret.pc = "ensure_name"
    /\ ret' =
         IF ret.conf = "missing"
         THEN [ret EXCEPT !.pc = "decrypt_launcher", !.name_res = "err"]
         ELSE IF ret.conf = "named"
         THEN [ret EXCEPT !.pc = "decrypt_launcher", !.name_res = "ok"]
         ELSE IF ret.line = "err"
         THEN [ret EXCEPT !.pc = "decrypt_launcher", !.name_res = "err"]
         ELSE IF ~ret.conf_writable
         THEN [ret EXCEPT !.pc = "decrypt_launcher", !.name_res = "err"]
         ELSE [ret EXCEPT !.pc = "decrypt_launcher", !.name_res = "ok",
                          !.conf = IF ret.line = "name" THEN "named"
                                   ELSE "blank",
                          !.written = @ \cup {"configs.user.ini"}]
    /\ UNCHANGED <<step_status, chan, current_task, busy, source_dir, th, app>>

\* let _ = decrypt_launcher(): Ok at once when the loader exists; read,
\* decrypt and write are unwrapped with expect, and a panic ends the process.
DecryptLauncher ==
    /\ ret.fn = "launch"
    /\ ret.pc = "decrypt_launcher"
    /\ ret' =
         IF ret.loader
         THEN [ret EXCEPT !.pc = "start", !.dec_res = "ok"]
         ELSE IF ret.enc = "missing"
         THEN [ret EXCEPT !.pc = "panic", !.dec_res = "panic"]
         ELSE IF ret.enc = "corrupt"
         THEN [ret EXCEPT !.pc = "panic", !.dec_res = "panic"]
         ELSE IF ~ret.loader_writable
         THEN [ret EXCEPT !.pc = "panic", !.dec_res = "panic"]
         ELSE [ret EXCEPT !.pc = "start", !.dec_res = "ok",
                          !.loader = TRUE,
                          !.written = @ \cup {"steamclient_loader_x64.exe"}]
    /\ UNCHANGED <<step_status, chan, current_task, busy, source_dir, th, app>>

\* Command::new("launcher/start_age2.bat").status()
StartAge2 ==
    /\ ret.fn = "launch"
    /\ ret.pc = "start"
    /\ ret' = [ret EXCEPT !.pc = "exit", !.started = TRUE]
    /\ UNCHANGED <<step_status, chan, current_task, busy, source_dir, th, app>>

NextLaunch == EnsureName \/ DecryptLauncher \/ StartAge2

SpecLaunch == InitLaunch /\ [][NextLaunch]_vars

---------------------------------------------------------------------------
\* Properties

WorkerKinds == {"copy", "goldberg", "companion", "launcher", "runall"}

\* Thread t is the only thread that was ever spawned.
OnlyThread(t) == \A u \in Tids \ {t} : th[u].kind = "none"

\* C1: of the set_task calls made on one Context at most one has succeeded
\* and not yet dropped its TaskReset, and a set_task call made while a
\* TaskReset is outstanding returns an error at once and takes nothing.
C1_SetTaskExclusive ==
    [][/\ Cardinality(Holders(0))' <= 1
       /\ \A task \in Tasks :
            (TryStart(task) /\ Holders(0) # {}) =>
                (~ret'.ok /\ th' = th /\ current_task' = current_task)]_vars

C1_Witness ==
    /\ ret.fn = "set_task"
    /\ ~ret.ok
    /\ Cardinality(Holders(0)) = 1

\* C2: once no TaskReset of a Context is held any more, whichever way its
\* owner ended (operation Ok, operation Err, panic), is_busy() is false and
\* the next set_task succeeds.
C2_ReleasedOnEveryExit ==
    \A c \in CtxIds :
        Holders(c) = {} =>
            /\ ~IsBusy(current_task[c])
            /\ \A task \in Tasks : SetTask(current_task[c], task).ok

C2_Witness ==
    \E t \in Tids :
        /\ th[t].kind = "goldberg"
        /\ th[t].pc = "done"
        /\ th[t].res.out = "panic"
        /\ ret.fn = "set_task"
        /\ ret.ok
        /\ ret.tid # t
        /\ ret.tid \in Holders(0)

\* C10: a spawn_apply or spawn_install_launcher_companion call made while a
\* guard is outstanding returns the error and changes nothing: no thread,
\* no slot write, no event, and the current task stays the holder's.
C10_FailedSpawnChangesNothing ==
    [][((CallSpawnApply \/ CallSpawnCompanion) /\ Holders(0) # {}) =>
          /\ ~ret'.ok
          /\ ret'.fn \in {"spawn_apply", "spawn_install_launcher_companion"}
          /\ UNCHANGED <<th, step_status, chan, current_task>>]_vars

C10_Witness ==
    /\ ret.fn \in {"spawn_apply", "spawn_install_launcher_companion"}
    /\ ~ret.ok
    /\ Holders(0) # {}
    /\ current_task[0] # "None"

\* C3: in the UI driver of main.rs at most one orchestrated worker thread
\* is active at any time.
C3_AtMostOneWorker ==
    Cardinality({t \in Tids : th[t].kind \in WorkerKinds /\ th[t].pc # "done"}) <= 1

\* The operations a run-all thread has called when step k is its last one.
RunAllCalls(k) == [i \in 1..(k + 1) |-> OpName("runall", i - 1)]

C6_InProgressOnReturn ==
    (/\ ret.fn \in {"spawn_apply", "spawn_install_launcher_companion",
                    "spawn_copy_game_folder"}
     /\ ret.ok
     /\ ret.tid # 0
     /\ th[ret.tid].pc \in {"start", "op"}) =>
        step_status[th[ret.tid].step] = InProgress

\* C7: when the operation of a copy, Goldberg or companion worker returns,
\* the slot becomes Completed iff it returned Ok and Failed(formatted
\* message) iff it returned Err, it is not left InProgress, and a log or
\* error event is sent in both cases.
C7_WorkerOutcome ==
    [][\A t \in Tids :
         (/\ th[t].kind \in {"copy", "goldberg", "companion"}
          /\ th[t].pc = "op"
          /\ th'[t].pc # "op"
          /\ th'[t].res.out \in {"ok", "err"}) =>
            LET s == th[t].step
                r == th'[t].res
                last == chan'[Len(chan')]
            IN  /\ (step_status'[s] = Completed) <=> (r.out = "ok")
                /\ (step_status'[s] = Failed(JoinChain(r.err))) <=> (r.out = "err")
                /\ step_status'[s] # InProgress
                /\ Len(chan') > Len(chan)
                /\ IF r.out = "ok"
                   THEN \/ last.type = "Working"
                        \/ last.type = "Log" /\ last.text[2] = "INFO"
                   ELSE \/ last.type = "Error"
                        \/ last.type = "Log" /\ last.text[2] = "ERROR"]_vars

C7_Witness ==
    \E t \in Tids :
        /\ th[t].kind \in {"copy", "goldberg", "companion"}
        /\ th[t].pc = "exit"
        /\ th[t].res.out = "err"
        /\ step_status[th[t].step] = Failed(JoinChain(th[t].res.err))
        /\ Len(th[t].res.err) = 2

\* C8: when the install_launcher of a thread started by
\* spawn_install_launcher returns an error, slot 3 becomes Failed(message)
\* and the failure is reported on the channel; when it returns Ok, slot 3
\* becomes Completed.
C8_LauncherOutcome ==
    [][\A t \in Tids :
         (/\ th[t].kind = "launcher"
          /\ th[t].pc = "op"
          /\ th'[t].pc # "op") =>
            /\ th'[t].res.out = "ok" => step_status'[3] = Completed
            /\ th'[t].res.out = "err" =>
                 /\ step_status'[3] = Failed(JoinChain(th'[t].res.err))
                 /\ chan'[Len(chan')].type = "Error"]_vars

\* C9: spawn_install_launcher called while the guard of its Context is held
\* reports the error to its caller and starts no installation.
C9_LauncherRefusedWhenBusy ==
    [][(CallSpawnInstallLauncher /\ BusyHolders(0) # {}) =>
          (~ret'.ok /\ th' = th)]_vars

\* Thread t is a Goldberg or companion worker and the only worker there is.
SingleStepRun(t) ==
    /\ th[t].kind \in {"goldberg", "companion"}
    /\ \A u \in Tids \ {t} : th[u].kind \in {"none", "holder"}

\* Position of a status in the order NotStarted, InProgress, Completed|Failed.
Rank(st) ==
    CASE st.tag = "NotStarted" -> 0
      [] st.tag = "InProgress" -> 1
      [] OTHER -> 2

\* C11 (as stated): in a single step run the observer that reads the table
\* on the StepStatusChanged events never sees the step go from NotStarted
\* to Completed without having seen InProgress.
C11_NoStateSkipped ==
    [][\A t \in Tids :
         SingleStepRun(t) =>
            ~(/\ app.steps[th[t].step] = NotStarted
              /\ app'.steps[th[t].step] = Completed)]_vars

\* C11 (amended): in a single step run every change the observer sees of
\* the step's status is a move forward in NotStarted, InProgress,
\* Completed|Failed (states may be skipped, none comes back), the other
\* slots are seen unchanged, and once the worker has ended and every event
\* is handled the observer sees the table as it is.
C11_ObservedForward ==
    [][\A t \in Tids :
         SingleStepRun(t) =>
            /\ \A i \in Steps :
                 app'.steps[i] # app.steps[i] =>
                    /\ i = th[t].step
                    /\ Rank(app.steps[i]) < Rank(app'.steps[i])
            /\ (th'[t].pc = "done" /\ chan' = <<>>) => app'.steps = step_status']_vars

C11_Witness ==
    \E t \in Tids :
        /\ SingleStepRun(t)
        /\ th[t].pc = "done"
        /\ th[t].res.out = "ok"
        /\ chan = <<>>
        /\ app.steps[th[t].step] = Completed

\* C12: a coordinator blocked in recv() on the Receiver of a companion
\* worker whose operation has returned is eventually unblocked; it gets the
\* value only after a successful operation and the disconnection only after
\* a failed one.
C12_CompletionSignal ==
    /\ [](\A t \in Tids :
            /\ th[t].rx = "got" => th[t].res.out = "ok"
            /\ th[t].rx = "disconnected" => th[t].res.out = "err")
    /\ \A t \in Tids :
         (/\ th[t].kind = "companion"
          /\ th[t].rx = "waiting"
          /\ th[t].res.out \in {"ok", "err"})
            ~> (th[t].rx \in {"got", "disconnected"})

C12_Witness ==
    \E t \in Tids :
        /\ th[t].kind = "companion"
        /\ th[t].rx = "disconnected"
        /\ th[t].res.out = "err"
        /\ step_status[2].tag = "Failed"

\* C13: whatever the caller does with the Receiver, a companion worker whose
\* operation has returned eventually ends and its guard is released.
C13_WorkerAlwaysFinishes ==
    \A t \in Tids :
        (th[t].kind = "companion" /\ th[t].res.out \in {"ok", "err"})
            ~> (th[t].pc = "done" /\ t \notin Holders(0))

\* C14: no send on the event channel makes a producer wait or fail: whatever
\* the channel holds and whether or not its Receiver still exists, a worker
\* that marks its step goes on to its operation, a worker whose operation
\* returned goes on as the result says, and no worker is ever blocked on the
\* channel.
C14_SendNeverBlocks ==
    [][\A t \in Tids :
         /\ th'[t].pc # "blocked"
         /\ Begin(t) => th'[t].pc = "op"
         /\ OpReturn(t) =>
              /\ th'[t].pc = AfterOp(th[t].kind, th[t].step, th'[t].res).pc
              /\ th'[t].res.out \in {"ok", "err"} /\ th[t].kind # "launcher" =>
                    step_status'[th[t].step] = FinalStatus(th'[t].res)]_vars

C14_Witness ==
    \E t \in Tids :
        /\ app.update_rx = "dropped"
        /\ app.steps[0] = NotStarted
        /\ th[t].kind = "copy" /\ th[t].pc = "done"
        /\ th[t].res.out = "ok"
        /\ step_status[0] = Completed

\* The slot of the step a worker of this kind runs (a run-all thread runs
\* the step it has reached).
SlotOf(kind, step) ==
    CASE kind = "copy" -> 0
      [] kind = "goldberg" -> 1
      [] kind = "companion" -> 2
      [] OTHER -> step

\* C15: every change of a slot is a write by a thread that is running that
\* slot's step (the copy worker slot 0, the Goldberg worker slot 1, the
\* companion worker slot 2, the run-all thread the step it is at), and the
\* write leaves the three other slots as they were.
C15_OwnSlotOnly ==
    [][\A i \in Steps :
         step_status'[i] # step_status[i] =>
            /\ \E t \in Tids :
                 /\ Begin(t) \/ OpReturn(t)
                 /\ th[t].kind \in {"copy", "goldberg", "companion", "runall"}
                 /\ i = SlotOf(th[t].kind, th[t].step)
            /\ \A j \in Steps \ {i} : step_status'[j] = step_status[j]]_vars

C15_Witness ==
    \E t \in Tids :
        /\ th[t].kind = "goldberg"
        /\ th[t].pc = "done"
        /\ th[t].res.out = "err"
        /\ step_status[0] = Completed
        /\ step_status[1].tag = "Failed"
        /\ step_status[2] = NotStarted
        /\ step_status[3] = NotStarted

\* C16: set_step_status(i, s) with i < 4 puts s in slot i and leaves the
\* other slots and the length of the table as they were, and only then
\* sends one StepStatusChanged event, the table being left alone by the
\* send; the call is over after that one event.
C16_SetStepStatusInRange ==
    [][\A t \in Tids :
         (th[t].kind = "setter" /\ th[t].step < NumSteps) =>
            /\ SetterWrite(t) =>
                 /\ step_status'[th[t].step] = th[t].arg
                 /\ \A j \in Steps \ {th[t].step} : step_status'[j] = step_status[j]
                 /\ DOMAIN step_status' = Steps
                 /\ chan' = chan
                 /\ th[t].calls = <<>>
            /\ SetterSend(t) =>
                 /\ chan' = Append(chan, StepStatusChanged)
                 /\ step_status' = step_status
                 /\ th[t].calls = <<"table">>
                 /\ th'[t].pc = "done"]_vars

C16_Witness ==
    \E t \in Tids :
        /\ th[t].kind = "setter"
        /\ th[t].pc = "done"
        /\ th[t].step = 2
        /\ th[t].arg = Completed
        /\ th[t].calls = <<"table", "send">>
        /\ step_status[2] = Completed
        /\ step_status[1] = InProgress
        /\ chan # <<>>

\* C17: set_step_status(i, s) with i >= 4 changes no slot and returns as
\* any other call does.
C17_OutOfRangeIgnored ==
    [][\A t \in Tids :
         (th[t].kind = "setter" /\ th[t].step >= NumSteps) =>
            /\ step_status' = step_status
            /\ SetterWrite(t) => th'[t].pc = "send"
            /\ SetterSend(t) => th'[t].pc = "done"]_vars

C17_Witness ==
    \E t \in Tids :
        /\ th[t].kind = "setter"
        /\ th[t].pc = "done"
        /\ th[t].step = NumSteps
        /\ th[t].arg = Completed
        /\ step_status[NumSteps - 1] = InProgress

\* C18: on every Context at most one TaskReset exists, is_busy() is true
\* exactly when one exists, and while it exists the current task is the
\* task given to the set_task call that made it.
C18_GuardInvariant ==
    \A c \in CtxIds :
        /\ Cardinality(Holders(c)) <= 1
        /\ IsBusy(current_task[c]) <=> Holders(c) # {}
        /\ \A t \in Holders(c) :
             th[t].task \in Tasks /\ current_task[c] = th[t].task

C18_Witness ==
    \E t \in Tids :
        /\ Holders(0) = {t}
        /\ th[t].kind = "holder"
        /\ th[t].task = "Launcher"
        /\ current_task[0] = "Launcher"
        /\ ret.fn = "spawn_apply"
        /\ ~ret.ok

C20_NoSourceDirectory ==
    [][(CallSpawnCopyGameFolder /\ source_dir = "None" /\ ~BusyIsBusy(busy[0])) =>
          /\ th' = th
          /\ step_status' = step_status
          /\ ~BusyIsBusy(busy'[0])
          /\ BusyLock(busy'[0]).ok
          /\ chan' = <<ErrorEv(<<"No source directory selected">>)>>
          /\ ret'.fn = "spawn_copy_game_folder" /\ ret'.tid = 0]_vars

C20_Witness ==
    /\ source_dir = "None"
    /\ ret.fn = "spawn_copy_game_folder"
    /\ ret.ok
    /\ ret.tid = 0
    /\ chan = <<ErrorEv(<<"No source directory selected">>)>>
    /\ ~BusyIsBusy(busy[0])
    /\ \A t \in Tids : th[t].kind # "copy"

\* A fraction in [0, 1].
InUnit(fr) == fr.kind = "fin" /\ fr.den > 0 /\ fr.num <= fr.den

\* C21: every Progress(Some(label, fraction)) event of the sampler has its
\* fraction in [0, 1], whatever the sampled size and the source total.
C21_ProgressClamped ==
    \A k \in 1..Len(chan) :
        (chan[k].type = "Progress" /\ chan[k].text # <<>>) => InUnit(chan[k].frac)

C21_Witness ==
    \E t \in Tids :
        /\ th[t].kind = "sampler"
        /\ th[t].size = 0
        /\ chan # <<>>
        /\ chan[Len(chan)] = ProgressSome(Fin(1, 1))

\* The copy worker t has started its sampler and its copy_items is over.
CopyEnded(t) ==
    /\ th[t].kind = "copy"
    /\ th[t].peer # 0
    /\ th[t].pc \in {"store", "clear", "ret", "exit", "done"}

\* C22: once the copy_items of a copy has ended, with Ok or with Err, the
\* sampler that copy started eventually terminates.
C22_SamplerTerminates ==
    \A t \in Tids :
        CopyEnded(t) ~>
            (\E u \in Tids :
                u = th[t].peer /\ th[u].kind = "sampler" /\ th[u].pc = "done")

\* C23: once a copy has sent its final Progress(None), no Progress(Some(..))
\* event is put on the channel any more.
C23_LastProgressIsNone ==
    [][\A t \in Tids :
         (/\ th[t].kind = "copy"
          /\ th[t].peer # 0
          /\ th[t].res.out = "ok") =>
            NumSome(chan') <= NumSome(chan)]_vars

\* C24: lock discipline of the shared Context. A thread holds at most one of
\* the Context's mutexes, and while it holds one its next step is never the
\* acquisition of a mutex, a send on the rendezvous channel, or a file or
\* network operation; so whoever waits for a mutex waits for a holder whose
\* next step is enabled, and nobody waits forever.
Blocking == {"lock", "sync_send", "io"}

C24_LockDiscipline ==
    \A t \in Tids :
        /\ Cardinality(Held(t)) <= 1
        /\ Held(t) # {} => NextInstr(t).op \notin Blocking
        /\ (LockThread(t) /\ NextInstr(t).op = "lock") =>
              \A u \in Tids :
                  NextInstr(t).m \in Held(u) =>
                      u # t /\ NextInstr(u).op \notin Blocking

\* A worker waits for the status table while the frame draws under its lock.
C24_Witness ==
    \E t, u \in Tids :
        /\ th[t].prog \in {"goldberg", "companion"}
        /\ NextInstr(t) = I("lock", "step_status")
        /\ th[u].prog = "draw_main"
        /\ Held(u) = {"step_status"}
        /\ NextInstr(u).op = "draw"

\* The release with tag v that the lookup uses (0: there is none), and the
\* assets of it with a given property.
GhRelease ==
    LET found == {r \in 1..Len(ret.releases) :
                     ret.releases[r].tag = ret.version}
    IN  IF found = {} THEN 0 ELSE CHOOSE r \in found : \A q \in found : r <= q

GhFirst(S) == CHOOSE i \in S : \A j \in S : i <= j

GhReturned ==
    /\ ret.fn = "gh_latest_release_dl_url"
    /\ ret.res.out # "pending"
    /\ ret.version.has

\* C25 as stated: with version = Some(v), the result is the
\* browser_download_url of the first asset, in listing order, of the release
\* tagged v, among the assets whose name contains every search string (every
\* asset when search is empty).
C25_FirstNamedAsset ==
    (GhReturned /\ GhRelease # 0 /\ ret.releases[GhRelease].kind = "array") =>
        LET as == ret.releases[GhRelease].assets
            M == {i \in 1..Len(as) :
                     \/ ret.search = {}
                     \/ /\ as[i].name.has
                        /\ \A s \in ret.search : Contains(as[i].name.s, s)}
        IN  M # {} =>
               /\ as[GhFirst(M)].url
               /\ ret.res = GhOk([rel |-> GhRelease, idx |-> GhFirst(M)])

\* C25 amended: with version = Some(v), the result is the URL of the first
\* asset, in listing order, of the first release tagged v, among the assets
\* that have a name containing every search string and have a URL; it is
\* None when there is no such asset or no such release, and an error when
\* the listing is empty or the release has no asset array. No other release
\* is used.
C25_FirstUsableAsset ==
    GhReturned =>
        IF Len(ret.releases) = 0 THEN ret.res.out = "err"
        ELSE IF GhRelease = 0 THEN ret.res = GhOk(NoUrl)
        ELSE IF ret.releases[GhRelease].kind # "array"
             THEN ret.res.out = "err"
        ELSE LET as == ret.releases[GhRelease].assets
                 M == {i \in 1..Len(as) :
                          /\ as[i].name.has
                          /\ as[i].url
                          /\ \A s \in ret.search : Contains(as[i].name.s, s)}
             IN  IF M = {} THEN ret.res = GhOk(NoUrl)
                 ELSE ret.res = GhOk([rel |-> GhRelease, idx |-> GhFirst(M)])

\* The second release is the one tagged v, its second asset is the first
\* usable one (the first has a matching name and no URL), and the newest
\* release has a usable asset too.
C25_Witness ==
    /\ GhReturned
    /\ GhRelease = 2
    /\ ret.search = {<<"a">>, <<"b">>}
    /\ ret.releases[1].kind = "array"
    /\ ret.releases[1].assets = <<[name |-> Str(<<"b", "a">>), url |-> TRUE]>>
    /\ ret.releases[2].assets = <<[name |-> Str(<<"b", "a">>), url |-> FALSE],
                                  [name |-> Str(<<"b", "a">>), url |-> TRUE]>>
    /\ ret.res = GhOk([rel |-> 2, idx |-> 2])

\* C26: whenever a step of the table is InProgress a TaskReset is
\* outstanding: is_busy() = false implies that no step is InProgress.
C26_InProgressImpliesBusy ==
    (\E i \in Steps : step_status[i] = InProgress) => IsBusy(current_task[0])

\* C27: in every state in which the holder of the Receiver has received the
\* success signal of a companion worker, that worker holds its TaskReset no
\* longer, so a set_task issued right after the receive does not fail
\* because of it.
C27_ReleasedBeforeSignal ==
    \A t \in Tids :
        (th[t].kind = "companion" /\ th[t].rx = "got") =>
            t \notin Holders(th[t].ctx)

\* Step j has been set Completed at some time up to now: a worker's
\* operation for step j returned Ok (the records of ended threads are kept).
EverCompleted(j) ==
    \E u \in Tids :
        \/ /\ th[u].kind \in {"copy", "goldberg", "companion"}
           /\ th[u].step = j
           /\ th[u].res.out = "ok"
        \/ /\ th[u].kind = "runall"
           /\ \/ th[u].step > j
              \/ /\ th[u].step = j
                 /\ th[u].res.out = "ok"
                 /\ th[u].pc \in {"exit", "done"}

\* C28: step gating. Under any sequence of step-button and Run-All clicks,
\* a worker sets step i (i = 1, 2, 3) InProgress only if step i-1 has been
\* set Completed before.
C28_StepGating ==
    [][\A t \in Tids :
          (/\ th[t].pc = "start"
           /\ th'[t].pc # "start"
           /\ th[t].kind \in {"goldberg", "companion", "runall"}
           /\ th[t].step >= 1
           /\ step_status'[th[t].step] = InProgress)
             => EverCompleted(th[t].step - 1)]_vars

\* The pipeline has marked step 1 InProgress after its own step 0 completed,
\* while a copy started again meanwhile has put step 0 back to InProgress.
C28_Witness ==
    \E t \in Tids :
        /\ th[t].kind = "runall"
        /\ th[t].step = 1
        /\ th[t].pc = "op"
        /\ step_status[1] = InProgress
        /\ step_status[0] = InProgress

\* C29 as stated: Completed is final. Under any sequence of UI actions a
\* slot that has reached Completed is never overwritten again.
C29_CompletedIsFinal ==
    [][\A i \in Steps :
          step_status[i] = Completed => step_status'[i] = Completed]_vars

\* Thread t has set step i Completed.
CompletedBy(t, i) ==
    \/ /\ th[t].kind \in {"copy", "goldberg", "companion"}
       /\ th[t].step = i
       /\ th[t].res.out = "ok"
    \/ /\ th[t].kind = "runall"
       /\ \/ th[t].step > i
          \/ /\ th[t].step = i
             /\ th[t].res.out = "ok"
             /\ th[t].pc \in {"exit", "done"}

\* C29 amended: Completed is final within a run. The worker that set a slot
\* to Completed never writes that slot again; the slot is overwritten only
\* by another worker, started by a click for that step.
C29_CompletedFinalInRun ==
    [][\A i \in Steps :
          step_status'[i] # step_status[i] =>
              \A t \in Tids : th'[t] # th[t] => ~CompletedBy(t, i)]_vars

\* A copy has completed and ended, and a second copy, started by a new click
\* on the button, has put step 0 back to InProgress.
C29_Witness ==
    \E t, u \in Tids :
        /\ t # u
        /\ th[t].kind = "copy" /\ th[t].res.out = "ok" /\ th[t].pc = "done"
        /\ th[u].kind = "copy" /\ th[u].pc = "op"
        /\ step_status[0] = InProgress

\* The run-all threads started so far.
RunAllThreads == {t \in Tids : th[t].kind = "runall"}

\* C30: Run All is startable only from the initial status. No step writes
\* NotStarted into a slot; a run-all thread is started only when a source
\* directory is set, nothing is busy and step 0 is NotStarted; hence once a
\* worker has set step 0 InProgress no run-all thread is started any more.
C30_RunAllOnlyFromInitial ==
    [][/\ \A i \in Steps :
             step_status'[i] = NotStarted => step_status[i] = NotStarted
       /\ RunAllThreads' # RunAllThreads =>
             /\ source_dir # "None"
             /\ ~UiBusy
             /\ step_status[0] = NotStarted]_vars

\* A pipeline has failed at step 0 and ended: a source directory is set and
\* nothing runs, and Run All stays disabled.
C30_Witness ==
    /\ source_dir # "None"
    /\ \E t \in Tids :
          /\ th[t].kind = "runall"
          /\ th[t].pc = "done"
          /\ th[t].res.out = "err"
    /\ \A t \in Tids : th[t].pc = "done"
    /\ FreeTids # {}
    /\ step_status[0] # NotStarted
    /\ ~ENABLED ClickRunAll

\* Position of the first occurrence of call c in the calls of a thread (0
\* when it is not there).
CallPos(calls, c) ==
    IF \E k \in 1..Len(calls) : calls[k] = c
    THEN CHOOSE k \in 1..Len(calls) :
            calls[k] = c /\ \A j \in 1..(k - 1) : calls[j] # c
    ELSE 0

Called(calls, c) == CallPos(calls, c) # 0

Removes == {"remove_dir_all:ok", "remove_dir_all:err"}

\* C31: copy_game_folder removes an existing destination only after the
\* source passed validate_aoe2_source and the user answered Yes; after any
\* other answer nothing is removed, created or copied, the operation fails
\* with "Operation cancelled by user", and step 0 becomes Failed with it.
C31_DeleteOnlyAfterYes ==
    \A t \in Tids :
        th[t].kind = "copy" =>
            LET c == th[t].calls
                refused == Called(c, "dialog:No") \/ Called(c, "dialog:Cancel")
            IN  /\ \A r \in Removes :
                     Called(c, r) =>
                        /\ Called(c, "validate_aoe2_source:ok")
                        /\ CallPos(c, "validate_aoe2_source:ok") < CallPos(c, r)
                        /\ Called(c, "exists:true")
                        /\ Called(c, "dialog:Yes")
                        /\ CallPos(c, "dialog:Yes") < CallPos(c, r)
                /\ refused =>
                     /\ \A x \in Removes \cup {"create_dir_all:ok",
                                               "create_dir_all:err",
                                               "copy_items"} : ~Called(c, x)
                     /\ th[t].res = ResErr(<<"Operation cancelled by user">>)
                     /\ th[t].peer = 0
                     /\ th[t].pc \in {"exit", "done"} =>
                           step_status[0] =
                              Failed(FmtAlt(<<"Operation cancelled by user">>))

\* The user answered No: the worker has ended, step 0 is Failed.
C31_Witness ==
    \E t \in Tids :
        /\ th[t].kind = "copy"
        /\ Called(th[t].calls, "dialog:No")
        /\ th[t].pc = "done"
        /\ step_status[0] = Failed(FmtAlt(<<"Operation cancelled by user">>))

\* C32: the UI log buffer is bounded. After any sequence of add_log calls it
\* holds at most LogCap entries, and they are the most recently added ones
\* in insertion order: each call beyond the bound has dropped the oldest.
C32_LogBounded ==
    ret.fn = "add_log" =>
        LET n == Len(ret.hist)
            kept == IF n <= LogCap THEN n ELSE LogCap
        IN  /\ Len(ret.logs) <= LogCap
            /\ Len(ret.logs) = kept
            /\ ret.logs = SubSeq(ret.hist, n - kept + 1, n)

\* More than LogCap messages were logged, the first of them an error: the
\* buffer is full and the error is gone from it.
C32_Witness ==
    /\ ret.fn = "add_log"
    /\ Len(ret.hist) > LogCap + 1
    /\ Head(ret.hist[1]) = "ERROR: "
    /\ Len(ret.logs) = LogCap
    /\ \A k \in 1..Len(ret.logs) : Head(ret.logs[k]) # "ERROR: "

\* The release the lookup selects: the first one tagged with the requested
\* version, the first one of the listing when no version is requested
\* (0: no release has the tag).
GhSelected ==
    IF ret.version.has THEN GhRelease ELSE 1

\* C33: gh_latest_release_dl_url returns Ok(None), not an error, whenever
\* the listing is not empty and either no release has the requested tag or
\* the selected release (the first one when version is None) has an assets
\* array with no asset that has a name containing every search string and
\* has a browser_download_url.
C33_NoneNotError ==
    (/\ ret.fn = "gh_latest_release_dl_url"
     /\ ret.res.out # "pending"
     /\ Len(ret.releases) > 0) =>
        LET r == GhSelected
            usable == IF r = 0 \/ ret.releases[r].kind # "array" THEN {}
                      ELSE {i \in 1..Len(ret.releases[r].assets) :
                              LET a == ret.releases[r].assets[i]
                              IN  /\ a.name.has
                                  /\ a.url
                                  /\ \A s \in ret.search :
                                        Contains(a.name.s, s)}
        IN  (\/ r = 0
             \/ ret.releases[r].kind = "array" /\ usable = {})
                => ret.res = GhOk(NoUrl)

\* No version is requested and the newest release has two assets, one whose
\* name lacks a search string and one whose name matches but that has no
\* URL, while an older release has a usable asset: the result is None.
C33_Witness ==
    /\ ret.fn = "gh_latest_release_dl_url"
    /\ ret.res = GhOk(NoUrl)
    /\ ~ret.version.has
    /\ ret.search = {<<"a">>, <<"b">>}
    /\ Len(ret.releases) = 2
    /\ ret.releases[1].kind = "array"
    /\ ret.releases[1].assets = <<[name |-> Str(<<"a">>), url |-> TRUE],
                                  [name |-> Str(<<"b", "a">>), url |-> FALSE]>>
    /\ ret.releases[2].kind = "array"
    /\ ret.releases[2].assets = <<[name |-> Str(<<"b", "a">>), url |-> TRUE]>>

\* C34: the launch program always goes on to run launcher/start_age2.bat:
\* whatever ensure_name and decrypt_launcher met, the program does not end
\* without having run the start command; and a decrypt_launcher that finds
\* the decrypted loader leaves every file as it was.
C34_AlwaysStarts ==
    [][ret.fn = "launch" =>
          /\ ret'.pc \in {"exit", "panic"} => ret'.started
          /\ (ret.pc = "decrypt_launcher" /\ ret.loader) =>
                /\ ret'.written = ret.written
                /\ ret'.conf = ret.conf
                /\ ret'.enc = ret.enc
                /\ ret'.loader = ret.loader]_vars

====
